---------------------------- MODULE Spec2Model ----------------------------
(***************************************************************************)
(* A model of src/main.py, the study-tracking bot: the per-member session  *)
(* state machine driven by the panel buttons, the store lock, the          *)
(* background tasks that send the [STUDYLOG] lines, the admin commands     *)
(* (time adjustment, weekly settlement, replay) and the log channel.       *)
(*                                                                         *)
(* One guild is modelled.  The program runs on one asyncio event loop, so  *)
(* an action is the code a coroutine runs between two suspension points    *)
(* (an await that really waits: a network call, or store.lock held by      *)
(* somebody else).  Time is counted in ticks of 1/TicksPerSec second from  *)
(* 00:00 KST of a Monday; the wall clock is outside the program's control, *)
(* so every read of now_kst() draws an instant from Times.                 *)
(***************************************************************************)
EXTENDS Integers, Sequences, FiniteSets, TLC

\* ---------------------------------------------------------------- bounds
MaxMember == 2
MaxSlot == 2
MaxName == 1
MaxHalfDay == 1
MaxOps == 3
MaxSeqOps == 4
MaxSeqName == 2
MaxTick == 4
MaxSessionOps == 5
TicksPerSec == 2
MaxLog == 1
MaxWeekly == 86400
MaxBreak == 43200
MaxDelta == 43200
MaxReplayLog == 3
MaxReplayOps == 2
StudiedLogged == 1800
MaxRanked == 22
MaxAutoOps == 3
MaxRestartOps == 4
MaxText == 3
MaxNote == 2
MaxPanelOps == 3
MaxOrderOps == 3
MaxOrderLog == 2
MaxCreditOps == 3
MaxLiveOps == 3
MaxLiveLog == 2

\* The ranking shows at most RankLimit lines; a bar is at most BarWidth long.
RankLimit == 20
BarWidth == 20

\* Python's None, for the optional timestamps, dates and message ids
\* (every real value of these is >= 0).
None == -1

Members == 1..MaxMember
Slots == 1..MaxSlot
Names == 1..MaxName
SeqNames == 1..MaxSeqName

TicksPerDay == 86400 * TicksPerSec

\* The instants the clock can show: 12:00 of a Sunday (half-day 13 of week 0)
\* and the half-days after it, so that a week boundary lies inside the range.
Times == {(13 + h) * (TicksPerDay \div 2) : h \in 0..MaxHalfDay}

Max(a, b) == IF a >= b THEN a ELSE b

\* int(x) of Python on a float number of seconds: truncation toward zero.
\* The argument is a duration in ticks.
IntSeconds(ticks) ==
    IF ticks >= 0 THEN ticks \div TicksPerSec ELSE -((-ticks) \div TicksPerSec)

\* datetime.date() of an instant, as a day number.
DateOf(t) == t \div TicksPerDay

\* date.weekday(): Monday is 0.  Day 0 is a Monday.
Weekday(d) == d % 7

week_start_kst(d) == d - Weekday(d)

\* dt_to_iso / iso_to_dt: isoformat() keeps the microseconds and the offset,
\* so an instant survives the round trip; None (and "") parse to None.
dt_to_iso(t) == t
iso_to_dt(s) == IF s = None THEN None ELSE s

\* ------------------------------------------------------------ user records
NewUser(nm) ==
    [name |-> nm, status |-> "off", start_time |-> None, break_start |-> None,
     total_break_today |-> 0, weekly_total_sec |-> 0, streak |-> 0,
     last_work_date |-> None]

\* A faulty calc_effective_study_sec: the breaks are not deducted.
calc_without_breaks(u, now) ==
    LET start == iso_to_dt(u.start_time)
    IN  IF start = None THEN 0 ELSE Max(IntSeconds(now - start), 0)

calc_effective_study_sec(u, now) ==
    LET start == iso_to_dt(u.start_time)
        bs == iso_to_dt(u.break_start)
        total_break ==
            IF u.status = "break" /\ bs # None
            THEN u.total_break_today + IntSeconds(now - bs)
            ELSE u.total_break_today
    IN  IF start = None THEN 0
        ELSE Max(IntSeconds(now - start) - total_break, 0)

\* ------------------------------------------------------------- log events
\* A [STUDYLOG] line, by the fields replay reads back.
NoLog == [action |-> "none", uid |-> 0, ts |-> None, studied_sec |-> None,
          streak |-> None]

make_log(action, m, ts, studied, strk) ==
    [action |-> action, uid |-> m, ts |-> dt_to_iso(ts),
     studied_sec |-> studied, streak |-> strk]

\* A system line: its uid is "SYSTEM", written 0 here.
make_system_log(action, ts) ==
    [action |-> action, uid |-> 0, ts |-> dt_to_iso(ts), studied_sec |-> None,
     streak |-> None]

\* -------------------------------------------------------------- the state
VARIABLES
    users,          \* g["users"]: uid -> user record (the present uids)
    user_keys,      \* insertion order of g["users"]
    week_start,     \* g["week_start"]; None while the guild has no entry
    last_weekly_reset_log_id,
                    \* g["last_weekly_reset_log_id"]: None or a message id
    log_channel_id, \* g["log_channel_id"]: None or the channel
    lock,           \* store.lock: None or the slot holding it
    lockq,          \* store.lock's FIFO queue of waiters
    reqs,           \* the coroutines in flight, one per slot
    log,            \* the messages of the log channel, oldest first; the id
                    \* of a message is its position
    budget,         \* how many more coroutines the environment starts
    hist,           \* observer: what the steps taken so far have produced
                    \* (used by the specifications that run Watch)
    last_settlement_week_start,
                    \* g["last_settlement_week_start"]: None or a week
    file,           \* the state file: store.data as last written by
                    \* _atomic_save_sync
    dashboard_hash, \* g["dashboard_hash"]: NoHash or the fingerprint of
                    \* the summary of the last edit that was started
    panel           \* the panel message: whether g["panel"] names one, and
                    \* the summary the message shows

data == <<users, user_keys, week_start, last_weekly_reset_log_id>>
locks == <<lock, lockq>>
kept == <<file, dashboard_hash, panel>>
aux == <<hist, last_settlement_week_start, kept>>
vars == <<data, log_channel_id, locks, reqs, log, budget, aux>>

Idle == [kind |-> "none", member |-> 0, name |-> 0, pc |-> "idle", now |-> None,
         delta |-> 0, idx |-> 0, end |-> 0, log_text |-> NoLog,
         outcome |-> "none", desc |-> <<>>]

\* g["dashboard_hash"] = None, and a guild without a panel message.
NoHash == <<"none">>
NoPanel == [installed |-> FALSE, shown |-> <<>>]

\* What _atomic_save_sync writes: the whole of store.data.
Snapshot ==
    [users |-> users, user_keys |-> user_keys, week_start |-> week_start,
     last_weekly_reset_log_id |-> last_weekly_reset_log_id,
     log_channel_id |-> log_channel_id,
     last_settlement_week_start |-> last_settlement_week_start,
     dashboard_hash |-> dashboard_hash]

Init ==
    /\ users = <<>>
    /\ user_keys = <<>>
    /\ week_start = None
    /\ last_weekly_reset_log_id = None
    /\ log_channel_id = None
    /\ lock = None
    /\ lockq = <<>>
    /\ reqs = [r \in Slots |-> Idle]
    /\ log = <<>>
    /\ budget = MaxOps
    /\ hist = <<>>
    /\ last_settlement_week_start = None
    /\ dashboard_hash = NoHash
    /\ panel = NoPanel
    /\ file = Snapshot

\* ------------------------------------------------------ guild bookkeeping
Guild == [users |-> users, user_keys |-> user_keys, week_start |-> week_start,
          last_weekly_reset_log_id |-> last_weekly_reset_log_id]

SetGuild(g) ==
    /\ users' = g.users
    /\ user_keys' = g.user_keys
    /\ week_start' = g.week_start
    /\ last_weekly_reset_log_id' = g.last_weekly_reset_log_id

ensure_guild(g, clock) ==
    IF g.week_start = None
    THEN [g EXCEPT !.week_start = week_start_kst(DateOf(clock))]
    ELSE g

\* A faulty ensure_week_current: a new week also resets the streaks.
ensure_week_current_streaks(g, clock) ==
    LET current == week_start_kst(DateOf(clock))
    IN  IF g.week_start # current
        THEN [g EXCEPT !.week_start = current,
                       !.users = [m \in DOMAIN g.users |->
                                     [g.users[m] EXCEPT !.weekly_total_sec = 0,
                                                        !.streak = 0]]]
        ELSE g

ensure_week_current(g, clock) ==
    LET current == week_start_kst(DateOf(clock))
    IN  IF g.week_start # current
        THEN [g EXCEPT !.week_start = current,
                       !.users = [m \in DOMAIN g.users |->
                                     [g.users[m] EXCEPT !.weekly_total_sec = 0]]]
        ELSE g

\* A faulty ensure_user: a new member starts at work.
ensure_user_at_work(g, m, nm) ==
    IF m \in DOMAIN g.users
    THEN [g EXCEPT !.users[m].name = nm]
    ELSE [g EXCEPT !.users = (m :> [NewUser(nm) EXCEPT !.status = "work"])
                                @@ g.users,
                   !.user_keys = Append(g.user_keys, m)]

ensure_user(g, m, nm) ==
    IF m \in DOMAIN g.users
    THEN [g EXCEPT !.users[m].name = nm]
    ELSE [g EXCEPT !.users = (m :> NewUser(nm)) @@ g.users,
                   !.user_keys = Append(g.user_keys, m)]

\* The first three lines of every critical section that names a member.
Entered(m, nm, clock) ==
    ensure_user(ensure_week_current(ensure_guild(Guild, clock), clock), m, nm)

\* ------------------------------------------------------------- store.lock
\* asyncio.Lock: acquire() returns at once when the lock is free and nobody
\* waits; otherwise the caller joins the queue and release() wakes the head.
LockFree == lock = None /\ lockq = <<>>

\* A coroutine that starts takes the first slot that holds none (the slots
\* are interchangeable: which one it takes changes nothing it does).
SlotFree(r) ==
    /\ budget > 0
    /\ reqs[r].pc = "idle"
    /\ \A q \in Slots : q < r => reqs[q].pc # "idle"

\* Slot r is woken at the `async with store.lock` it waits at in pc `wait`.
Woken(r, wait) ==
    /\ reqs[r].pc = wait
    /\ lock = None
    /\ lockq # <<>>
    /\ Head(lockq) = r

\* A handler of kind k enters its first critical section in slot r: either
\* it starts with the lock free, or it is woken at the lock it waited for.
Enters(r, k) ==
    \/ /\ SlotFree(r)
       /\ LockFree
       /\ budget' = budget - 1
    \/ /\ Woken(r, "wait")
       /\ reqs[r].kind = k
       /\ budget' = budget

\* The waiters that remain when slot r has the lock.
Rest(r) == IF lockq # <<>> /\ Head(lockq) = r THEN Tail(lockq) ELSE lockq

\* The request a handler of kind k runs with: the member it names, that
\* member's display name, the `now` it read and the seconds it was given.
Started(k, m, nm, t, d) ==
    [Idle EXCEPT !.kind = k, !.member = m, !.name = nm, !.now = t, !.delta = d]

\* A handler starts and finds store.lock taken at its first `async with`.
Blocks(r, req) ==
    /\ SlotFree(r)
    /\ ~LockFree
    /\ lockq' = Append(lockq, r)
    /\ budget' = budget - 1
    /\ reqs' = [reqs EXCEPT ![r] = [req EXCEPT !.pc = "wait"]]
    /\ UNCHANGED <<data, log_channel_id, lock, log>>

\* ----------------------------------------------------------- the buttons
ButtonKinds == {"checkin", "toggle_break", "checkout", "myinfo"}

\* A faulty handler: safe_defer returned False and the callback goes on to
\* its critical section all the same.
DeferFailCommits(r, k) ==
    /\ SlotFree(r)
    /\ budget' = budget - 1
    /\ reqs' = [reqs EXCEPT ![r] = [Idle EXCEPT !.kind = k, !.pc = "return"]]
    /\ \E t \in Times : SetGuild(Entered(1, 1, t))
    /\ UNCHANGED <<log_channel_id, locks, log>>

\* A member presses a button and safe_defer returns False (the interaction is
\* unknown or expired): the callback returns.
DeferFail(r, k) ==
    /\ SlotFree(r)
    /\ budget' = budget - 1
    /\ reqs' = [reqs EXCEPT ![r] = [Idle EXCEPT !.kind = k, !.pc = "return"]]
    /\ UNCHANGED <<data, log_channel_id, locks, log>>

\* A member presses a button, safe_defer returns True, now = now_kst(), and
\* store.lock is not free: the callback waits for it.
DeferBlock(r, k, m, nm, t) == Blocks(r, Started(k, m, nm, t, 0))

\* Button k of member m (display name nm) enters its critical section.
ButtonEnters(r, k, m, nm) ==
    /\ Enters(r, k)
    /\ SlotFree(r) \/ (reqs[r].member = m /\ reqs[r].name = nm)

\* The `now` of the callback, read when safe_defer returned.
NowOf(r, clock) == IF SlotFree(r) THEN clock ELSE reqs[r].now

\* A faulty Reject: the callback returns without sending anything.
RejectSilently(r, req, g) ==
    /\ SetGuild(g)
    /\ lock' = lock
    /\ lockq' = Rest(r)
    /\ reqs' = [reqs EXCEPT ![r] = [req EXCEPT !.pc = "return"]]

\* A faulty Reject: the section calls save_now(), which waits for the lock
\* the section holds.
RejectRelocks(r, req, g) ==
    /\ SetGuild(g)
    /\ lock' = r
    /\ lockq' = Append(Rest(r), r)
    /\ reqs' = [reqs EXCEPT ![r] = [req EXCEPT !.pc = "wait"]]

\* The callback ends its critical section with a rejection: it awaits
\* followup.send while it holds the lock.
Reject(r, req, g) ==
    /\ SetGuild(g)
    /\ lock' = r
    /\ lockq' = Rest(r)
    /\ reqs' = [reqs EXCEPT ![r] = [req EXCEPT !.pc = "rej_send",
                                               !.outcome = "rejected"]]

\* The handler changed member m: save, build the log line, release the lock
\* and await the send of the confirmation.
Accept(r, req, g, u, text) ==
    /\ SetGuild([g EXCEPT !.users[req.member] = u])
    /\ lock' = lock
    /\ lockq' = Rest(r)
    /\ reqs' = [reqs EXCEPT ![r] = [req EXCEPT !.pc = "reply",
                                               !.outcome = "accepted",
                                               !.log_text = text]]

checkin_user(u, now) ==
    [u EXCEPT !.status = "work", !.start_time = dt_to_iso(now),
              !.break_start = None, !.total_break_today = 0]

CheckinCrit(r, m, nm, clock) ==
    /\ ButtonEnters(r, "checkin", m, nm)
    /\ LET now == NowOf(r, clock)
           req == Started("checkin", m, nm, now, 0)
           g == Entered(m, nm, clock)
           u == g.users[m]
       IN  IF u.status \in {"work", "break"}
           THEN Reject(r, req, g)
           ELSE Accept(r, req, g, checkin_user(u, now),
                       make_log("checkin", m, now, None, None))
    /\ UNCHANGED <<log_channel_id, log>>

\* A faulty break_start_user: the break begins but the status stays "work".
break_start_keeps_status(u, now) == [u EXCEPT !.break_start = dt_to_iso(now)]

break_start_user(u, now) ==
    [u EXCEPT !.status = "break", !.break_start = dt_to_iso(now)]

break_end_user(u, now) ==
    LET bs == iso_to_dt(u.break_start)
        delta == IF bs # None THEN IntSeconds(now - bs) ELSE 0
    IN  [u EXCEPT !.total_break_today = u.total_break_today + Max(delta, 0),
                  !.status = "work", !.break_start = None]

ToggleCrit(r, m, nm, clock) ==
    /\ ButtonEnters(r, "toggle_break", m, nm)
    /\ LET now == NowOf(r, clock)
           req == Started("toggle_break", m, nm, now, 0)
           g == Entered(m, nm, clock)
           u == g.users[m]
       IN  IF u.status = "off"
           THEN Reject(r, req, g)
           ELSE IF u.status = "work"
           THEN Accept(r, req, g, break_start_user(u, now),
                       make_log("break_start", m, now, None, None))
           ELSE /\ break_end_user(u, now).total_break_today <= MaxBreak
                /\ Accept(r, req, g, break_end_user(u, now),
                          make_log("break_end", m, now, None, None))
    /\ UNCHANGED <<log_channel_id, log>>

\* A faulty streak rule: a check-out on the day of the last one counts again.
streak_counts_again(u, now) ==
    IF u.last_work_date # None
       /\ u.last_work_date \in {DateOf(now) - 1, DateOf(now)}
    THEN u.streak + 1
    ELSE 1

\* The streak rule of checkout.
streak_after(u, now) ==
    LET today == DateOf(now)
        yday == DateOf(now) - 1
        last == u.last_work_date
    IN  IF last # None /\ last = yday THEN u.streak + 1
        ELSE IF last # None /\ last = today THEN u.streak
        ELSE 1

\* checkout: a break still open is closed into the total.
close_break(u, now) ==
    IF u.status = "break"
    THEN LET bs == iso_to_dt(u.break_start)
         IN  [u EXCEPT !.total_break_today =
                            IF bs # None
                            THEN u.total_break_today + Max(IntSeconds(now - bs), 0)
                            ELSE u.total_break_today,
                       !.break_start = None]
    ELSE u

checkout_studied(u, now) == calc_effective_study_sec(close_break(u, now), now)

\* A faulty checkout_user: the session is counted but not closed.
checkout_stays_open(u, now) ==
    [u EXCEPT !.weekly_total_sec = u.weekly_total_sec + checkout_studied(u, now),
              !.streak = streak_after(u, now),
              !.last_work_date = DateOf(now)]

checkout_user(u, now) ==
    [u EXCEPT !.weekly_total_sec = u.weekly_total_sec + checkout_studied(u, now),
              !.streak = streak_after(u, now),
              !.last_work_date = DateOf(now),
              !.status = "off", !.start_time = None, !.break_start = None,
              !.total_break_today = 0]

CheckoutCrit(r, m, nm, clock) ==
    /\ ButtonEnters(r, "checkout", m, nm)
    /\ LET now == NowOf(r, clock)
           req == Started("checkout", m, nm, now, 0)
           g == Entered(m, nm, clock)
           u == g.users[m]
           v == checkout_user(u, now)
       IN  IF u.status = "off"
           THEN Reject(r, req, g)
           ELSE /\ v.weekly_total_sec <= MaxWeekly
                /\ Accept(r, req, g, v,
                          make_log("checkout", m, now, checkout_studied(u, now),
                                   v.streak))
    /\ UNCHANGED <<log_channel_id, log>>

\* myinfo: the critical section builds the text; the reply is sent after it.
MyinfoCrit(r, m, nm, clock) ==
    /\ ButtonEnters(r, "myinfo", m, nm)
    /\ SetGuild(Entered(m, nm, clock))
    /\ lock' = lock
    /\ lockq' = Rest(r)
    /\ reqs' = [reqs EXCEPT ![r] =
                   [Started("myinfo", m, nm, NowOf(r, clock), 0) EXCEPT
                       !.pc = "info_send", !.outcome = "info"]]
    /\ UNCHANGED <<log_channel_id, log>>

\* The callback has returned without entering its critical section.
Returned(r) ==
    /\ reqs[r].pc = "return"
    /\ reqs' = [reqs EXCEPT ![r] = Idle]
    /\ UNCHANGED <<data, log_channel_id, locks, log, budget>>

\* The send of a text that ends the handler returns (or raises).
InfoSent(r) ==
    /\ reqs[r].pc = "info_send"
    /\ reqs' = [reqs EXCEPT ![r] = Idle]
    /\ UNCHANGED <<data, log_channel_id, locks, log, budget>>

\* followup.send of a rejection returns (or raises): the `async with` block
\* is left, which releases the lock, and the callback ends.
RejectSent(r) ==
    /\ reqs[r].pc = "rej_send"
    /\ lock = r
    /\ lock' = None
    /\ reqs' = [reqs EXCEPT ![r] = Idle]
    /\ UNCHANGED <<data, log_channel_id, lockq, log, budget>>

\* The send of the confirmation returned.  A button schedules after() with
\* create_task and ends; adjust_time goes on to its second `async with`.
ReplyDone(r) ==
    /\ reqs[r].pc = "reply"
    /\ reqs' = [reqs EXCEPT ![r].pc = "after"]
    /\ UNCHANGED <<data, log_channel_id, locks, log, budget>>

\* The send of the confirmation raised: the handler dies there, so a button
\* never reaches schedule_after_response and no after() task exists.
ReplyFail(r) ==
    /\ reqs[r].pc = "reply"
    /\ reqs' = [reqs EXCEPT ![r] = Idle]
    /\ UNCHANGED <<data, log_channel_id, locks, log, budget>>

\* The closing `async with store.lock` of a handler finds the lock taken.
AfterBlock(r) ==
    /\ reqs[r].pc = "after"
    /\ ~LockFree
    /\ lockq' = Append(lockq, r)
    /\ reqs' = [reqs EXCEPT ![r].pc = "after_wait"]
    /\ UNCHANGED <<data, log_channel_id, lock, log, budget>>

\* The commands that run a settlement: the manual one and the scheduled one.
SettleKinds == {"settle", "auto"}

\* What is left of a handler once its log line is dealt with:
\* update_dashboard(force=True).  fetch_panel_message returns None at once
\* while no panel is installed, and the handler is over; with a panel it
\* awaits ch.fetch_message.
Done(r) ==
    IF panel.installed THEN [reqs[r] EXCEPT !.pc = "dash_fetch"] ELSE Idle

\* The closing section: `async with store.lock: g2 = ensure_guild(...)`.  A
\* settlement first records the week it settled, in a section of its own
\* (g_save["last_settlement_week_start"] = g_save.get("week_start")).  A
\* button's after() then calls send_log_text, which returns None at once
\* without a log channel and otherwise awaits ch.send; update_dashboard
\* returns at once without a panel.
AfterRun(r, clock) ==
    /\ (reqs[r].pc = "after" /\ LockFree) \/ Woken(r, "after_wait")
    /\ SetGuild(ensure_guild(Guild, clock))
    /\ lock' = lock
    /\ lockq' = Rest(r)
    /\ reqs' = IF reqs[r].kind \in ButtonKinds /\ log_channel_id # None
               THEN [reqs EXCEPT ![r].pc = "log_send"]
               ELSE [reqs EXCEPT ![r] = Done(r)]
    /\ last_settlement_week_start' =
           IF reqs[r].kind \in SettleKinds THEN week_start'
           ELSE last_settlement_week_start
    /\ UNCHANGED <<log_channel_id, log, budget>>

\* ch.send(text) of send_log_text returned: the line is in the log channel.
LogSentUpTo(r, cap) ==
    /\ reqs[r].pc = "log_send"
    /\ Len(log) < cap
    /\ log' = Append(log, reqs[r].log_text)
    /\ reqs' = [reqs EXCEPT ![r] = Done(r)]
    /\ UNCHANGED <<data, log_channel_id, locks, budget>>

LogSent(r) == LogSentUpTo(r, MaxLog)

\* ch.send(text) raised: send_log_text swallows it and returns None.
LogFail(r) ==
    /\ reqs[r].pc = "log_send"
    /\ reqs' = [reqs EXCEPT ![r] = Done(r)]
    /\ UNCHANGED <<data, log_channel_id, locks, log, budget>>

\* ------------------------------------------------------------ adjust_time
Deltas == {-MaxDelta, MaxDelta}

\* A faulty adjust_user: the sum is not floored at 0.
adjust_user_unfloored(u, delta_sec) ==
    [u EXCEPT !.weekly_total_sec = u.weekly_total_sec + delta_sec]

adjust_user(u, delta_sec) ==
    [u EXCEPT !.weekly_total_sec = Max(u.weekly_total_sec + delta_sec, 0)]

AdjustBlock(r, m, nm, d) == Blocks(r, Started("adjust", m, nm, None, d))

\* adjust_time for member m by d seconds: its critical section, then the send
\* of the confirmation (steps ReplyDone, ReplyFail) and the closing section.
AdjustCrit(r, m, nm, d, clock) ==
    /\ Enters(r, "adjust")
    /\ SlotFree(r) \/ (reqs[r].member = m /\ reqs[r].name = nm /\ reqs[r].delta = d)
    /\ LET g == Entered(m, nm, clock)
           v == adjust_user(g.users[m], d)
       IN  /\ v.weekly_total_sec <= MaxWeekly
           /\ Accept(r, Started("adjust", m, nm, None, d), g, v, NoLog)
    /\ UNCHANGED <<log_channel_id, log>>

\* ------------------------------------------------------ weekly settlement
SettleBlock(r) == Blocks(r, Started("settle", 0, 0, None, 0))

\* weekly_settlement_cmd: the first section finds the channel (a guild has a
\* text channel to fall back on); then ctx.send of the opening line.
SettleCrit(r, clock) ==
    /\ Enters(r, "settle")
    /\ SetGuild(ensure_guild(Guild, clock))
    /\ lock' = lock
    /\ lockq' = Rest(r)
    /\ reqs' = [reqs EXCEPT ![r] =
                   [Started("settle", 0, 0, None, 0) EXCEPT !.pc = "st_open"]]
    /\ UNCHANGED <<log_channel_id, log>>

\* ctx.send of the opening line raised: the command ends.
SettleFail(r) ==
    /\ reqs[r].pc = "st_open"
    /\ reqs' = [reqs EXCEPT ![r] = Idle]
    /\ UNCHANGED <<data, log_channel_id, locks, log, budget>>

\* `async with store.lock: g_live = ...` finds the lock taken.
SettleWait(r) ==
    /\ reqs[r].pc = "st_open"
    /\ ~LockFree
    /\ lockq' = Append(lockq, r)
    /\ reqs' = [reqs EXCEPT ![r].pc = "st_wait"]
    /\ UNCHANGED <<data, log_channel_id, lock, log, budget>>

\* g_live is taken under the lock; run_weekly_settlement starts with
\* ensure_week_current (the lock is released by then) and awaits the sends
\* of the announcement, of the ranking and of the reset notice.
SettleBegin(r, clock) ==
    /\ (reqs[r].pc = "st_open" /\ LockFree) \/ Woken(r, "st_wait")
    /\ SetGuild(ensure_week_current(ensure_guild(Guild, clock), clock))
    /\ lock' = lock
    /\ lockq' = Rest(r)
    /\ reqs' = [reqs EXCEPT ![r].pc = "st_msgs"]
    /\ UNCHANGED <<log_channel_id, log, budget>>

\* A faulty insert_desc: equal totals change places.
insert_desc_unstable(us, x, sorted) ==
    LET above == SelectSeq(sorted, LAMBDA y : us[y].weekly_total_sec
                                                >= us[x].weekly_total_sec)
        below == SelectSeq(sorted, LAMBDA y : us[y].weekly_total_sec
                                                < us[x].weekly_total_sec)
    IN  above \o <<x>> \o below

\* users.sort(key=weekly_total_sec, reverse=True): the sort is stable, so x,
\* which precedes the members of `sorted` in the dict, goes before the first
\* of them whose total is not greater.
RECURSIVE insert_desc(_, _, _)
insert_desc(us, x, sorted) ==
    IF sorted = <<>> THEN <<x>>
    ELSE IF us[Head(sorted)].weekly_total_sec > us[x].weekly_total_sec
    THEN <<Head(sorted)>> \o insert_desc(us, x, Tail(sorted))
    ELSE <<x>> \o sorted

RECURSIVE sort_desc(_, _)
sort_desc(us, keys) ==
    IF keys = <<>> THEN <<>>
    ELSE insert_desc(us, Head(keys), sort_desc(us, Tail(keys)))

\* A faulty bar_len: the quotient is rounded to the nearest integer.
bar_len_rounded(sec, top_sec) ==
    Max((2 * sec * BarWidth + top_sec) \div (2 * top_sec), 1)

\* max(int((sec / top_sec) * 20), 1).  For 0 < sec <= top_sec the float
\* product truncates to the floor of the exact quotient 20 * sec / top_sec.
bar_len(sec, top_sec) == Max((sec * BarWidth) \div top_sec, 1)

\* build_weekly_ranking_lines: the empty-ranking message when no total is
\* positive; otherwise one line per member with a positive total, in sorted
\* order, numbered from 1, at most RankLimit of them.
build_weekly_ranking_lines(us, keys) ==
    LET sorted == sort_desc(us, keys)
        ranked == SelectSeq(sorted, LAMBDA m : us[m].weekly_total_sec > 0)
        n == IF Len(ranked) > RankLimit THEN RankLimit ELSE Len(ranked)
        top_sec == Max(us[sorted[1]].weekly_total_sec, 1)
    IN  IF keys = <<>> \/ \A m \in DOMAIN us : us[m].weekly_total_sec = 0
        THEN [empty |-> TRUE, lines |-> <<>>]
        ELSE [empty |-> FALSE,
              lines |-> [i \in 1..n |->
                            [rank |-> i, member |-> ranked[i],
                             sec |-> us[ranked[i]].weekly_total_sec,
                             bar_len |-> bar_len(us[ranked[i]].weekly_total_sec,
                                                 top_sec)]]]

\* The announcement is sent: the ranking is built from the live totals (no
\* lock is held) and its messages are sent.
SettleRank(r) ==
    /\ reqs[r].pc = "st_msgs"
    /\ reqs' = [reqs EXCEPT ![r].pc = "st_rank"]
    /\ UNCHANGED <<data, log_channel_id, locks, log, budget>>

zero_weekly(us) == [m \in DOMAIN us |-> [us[m] EXCEPT !.weekly_total_sec = 0]]

\* The sends are over: every weekly total is zeroed (no lock is held) and the
\* weekly_reset line is built; send_log_text returns None at once without a
\* log channel and otherwise awaits ch.send.
SettleZero(r, clock) ==
    /\ reqs[r].pc = "st_rank"
    /\ users' = zero_weekly(users)
    /\ reqs' = IF log_channel_id = None
               THEN [reqs EXCEPT ![r].pc = "after"]
               ELSE [reqs EXCEPT ![r].pc = "st_log",
                                 ![r].log_text = make_system_log("weekly_reset", clock)]
    /\ UNCHANGED <<user_keys, week_start, last_weekly_reset_log_id,
                   log_channel_id, locks, log, budget>>

\* ch.send of the weekly_reset line returned: its id becomes the checkpoint.
SettleLogSentUpTo(r, cap) ==
    /\ reqs[r].pc = "st_log"
    /\ Len(log) < cap
    /\ log' = Append(log, reqs[r].log_text)
    /\ last_weekly_reset_log_id' = Len(log) + 1
    /\ reqs' = [reqs EXCEPT ![r].pc = "after"]
    /\ UNCHANGED <<users, user_keys, week_start, log_channel_id, locks, budget>>

SettleLogSent(r) == SettleLogSentUpTo(r, MaxLog)

\* ch.send of the weekly_reset line raised: msg_id is None.
SettleLogFail(r) ==
    /\ reqs[r].pc = "st_log"
    /\ reqs' = [reqs EXCEPT ![r].pc = "after"]
    /\ UNCHANGED <<data, log_channel_id, locks, log, budget>>

\* ----------------------------------------------------------------- replay
\* Step 1 of replay_from_logs: every session is reset, the totals are kept.
reset_user(u) ==
    [u EXCEPT !.status = "off", !.start_time = None, !.break_start = None,
              !.total_break_today = 0]

reset_sessions(g) ==
    [g EXCEPT !.users = [m \in DOMAIN g.users |-> reset_user(g.users[m])]]

\* A faulty replay_user: a check-out adds the seconds computed from the
\* timestamps of the session instead of the logged studied_sec.
replay_user_recomputed(u, evt) ==
    LET ts == iso_to_dt(evt.ts)
    IN  CASE evt.action = "checkin" ->
                 [u EXCEPT !.status = "work", !.start_time = evt.ts,
                           !.break_start = None, !.total_break_today = 0]
          [] evt.action = "break_start" ->
                 IF u.status = "work"
                 THEN [u EXCEPT !.status = "break", !.break_start = evt.ts]
                 ELSE u
          [] evt.action = "break_end" ->
                 IF u.status = "break" THEN break_end_user(u, ts) ELSE u
          [] evt.action = "checkout" ->
                 [u EXCEPT !.weekly_total_sec =
                               u.weekly_total_sec
                                   + calc_effective_study_sec(u, ts),
                           !.streak = IF evt.streak # None THEN evt.streak
                                      ELSE u.streak,
                           !.last_work_date = DateOf(ts),
                           !.status = "off", !.start_time = None,
                           !.break_start = None, !.total_break_today = 0]
          [] OTHER -> u

\* What the loop of replay_from_logs does to the record of a member with one
\* event of that member.
replay_user(u, evt) ==
    LET ts == iso_to_dt(evt.ts)
    IN  CASE evt.action = "checkin" ->
                 [u EXCEPT !.status = "work", !.start_time = evt.ts,
                           !.break_start = None, !.total_break_today = 0]
          [] evt.action = "break_start" ->
                 IF u.status = "work"
                 THEN [u EXCEPT !.status = "break", !.break_start = evt.ts]
                 ELSE u
          [] evt.action = "break_end" ->
                 IF u.status = "break" THEN break_end_user(u, ts) ELSE u
          [] evt.action = "checkout" ->
                 [u EXCEPT !.weekly_total_sec =
                               u.weekly_total_sec + Max(evt.studied_sec, 0),
                           !.streak = IF evt.streak # None THEN evt.streak
                                      ELSE u.streak,
                           !.last_work_date = DateOf(ts),
                           !.status = "off", !.start_time = None,
                           !.break_start = None, !.total_break_today = 0]
          [] OTHER -> u

\* The messages the loop passes over: one without the [STUDYLOG] prefix or
\* without an action (written "none"), one whose ts does not parse.
Skipped(evt) == evt.action = "none" \/ evt.ts = None

\* int(uid) raises ValueError on a uid that is no number: "SYSTEM" or a
\* garbled uid (both written 0) on a line that is no weekly_reset of SYSTEM.
\* No handler catches it: the command ends there.
replay_raises(evt) ==
    ~Skipped(evt) /\ evt.uid = 0 /\ evt.action # "weekly_reset"

\* A faulty replay_event: a check-out is dated by the clock of the replay.
replay_event_dated(g, evt, i, nms, clock) ==
    IF Skipped(evt) \/ replay_raises(evt)
    THEN g
    ELSE IF evt.uid = 0
    THEN [ensure_guild(g, clock) EXCEPT !.last_weekly_reset_log_id = i]
    ELSE LET g1 == ensure_user(
                       ensure_week_current(ensure_guild(g, clock), clock),
                       evt.uid, nms[evt.uid])
             u == replay_user(g1.users[evt.uid], evt)
         IN  [g1 EXCEPT !.users[evt.uid] =
                 IF evt.action = "checkout"
                 THEN [u EXCEPT !.last_work_date = DateOf(clock)]
                 ELSE u]

\* One message of the history, whose id is i: a weekly_reset line moves the
\* checkpoint; a line of a member is applied to that member's record.
replay_event(g, evt, i, nms, clock) ==
    IF Skipped(evt) \/ replay_raises(evt)
    THEN g
    ELSE IF evt.uid = 0
    THEN [ensure_guild(g, clock) EXCEPT !.last_weekly_reset_log_id = i]
    ELSE LET g1 == ensure_user(
                       ensure_week_current(ensure_guild(g, clock), clock),
                       evt.uid, nms[evt.uid])
         IN  [g1 EXCEPT !.users[evt.uid] = replay_user(g1.users[evt.uid], evt)]

\* The messages i..n of the history msgs, applied in that order up to the
\* first one that raises.
RECURSIVE replay_events(_, _, _, _, _, _)
replay_events(g, msgs, i, n, nms, clock) ==
    IF i > n \/ replay_raises(msgs[i]) THEN g
    ELSE replay_events(replay_event(g, msgs[i], i, nms, clock), msgs,
                       i + 1, n, nms, clock)

WeeklyCapped(g) == \A m \in DOMAIN g.users : g.users[m].weekly_total_sec <= MaxWeekly

ReplayBlock(r) == Blocks(r, Started("replay", 0, 0, None, 0))

\* replay_from_logs: the first section reads log_channel_id and the
\* checkpoint.  Without a log channel the command answers and ends.  With one,
\* the reset section follows: at once if nobody waits for the lock, and then
\* log_ch.history is awaited; behind the waiters otherwise.
ReplayCrit(r, clock) ==
    /\ Enters(r, "replay")
    /\ LET g == ensure_guild(Guild, clock)
           first == IF g.last_weekly_reset_log_id = None THEN 1
                    ELSE g.last_weekly_reset_log_id + 1
           req == Started("replay", 0, 0, None, 0)
       IN  IF log_channel_id = None
           THEN /\ SetGuild(g)
                /\ lockq' = Rest(r)
                /\ reqs' = [reqs EXCEPT ![r] = [req EXCEPT !.pc = "info_send"]]
           ELSE IF Rest(r) = <<>>
           THEN /\ SetGuild(reset_sessions(g))
                /\ lockq' = Rest(r)
                /\ reqs' = [reqs EXCEPT ![r] = [req EXCEPT !.pc = "rp_fetch",
                                                           !.idx = first]]
           ELSE /\ SetGuild(g)
                /\ lockq' = Append(Rest(r), r)
                /\ reqs' = [reqs EXCEPT ![r] = [req EXCEPT !.pc = "rp_reset",
                                                           !.idx = first]]
    /\ UNCHANGED <<log_channel_id, lock, log>>

\* The reset section, when the command had to wait for it.
ReplayReset(r, clock) ==
    /\ Woken(r, "rp_reset")
    /\ SetGuild(reset_sessions(ensure_guild(Guild, clock)))
    /\ lockq' = Rest(r)
    /\ reqs' = [reqs EXCEPT ![r].pc = "rp_fetch"]
    /\ UNCHANGED <<log_channel_id, lock, log, budget>>

\* log_ch.history returns the messages after the checkpoint.  The loop runs
\* without suspension while nobody else wants the lock: every message is
\* applied in this step; otherwise the command queues for the first one.
\* nms gives the display names the members have now.
ReplayFetch(r, nms, clock) ==
    /\ reqs[r].pc = "rp_fetch"
    /\ LET first == reqs[r].idx
           n == Len(log)
           g == replay_events(Guild, log, first, n, nms, clock)
       IN  IF first > n \/ LockFree
           THEN /\ WeeklyCapped(g)
                /\ SetGuild(g)
                /\ lockq' = lockq
                /\ reqs' = [reqs EXCEPT ![r].pc = "after", ![r].idx = 0]
           ELSE /\ UNCHANGED data
                /\ lockq' = Append(lockq, r)
                /\ reqs' = [reqs EXCEPT ![r].pc = "rp_wait", ![r].end = n]
    /\ UNCHANGED <<log_channel_id, lock, log, budget>>

\* The command is woken at the lock for message idx: it applies that message
\* and, while nobody waits, the following ones; with waiters it queues again
\* for the next message.
ReplayApply(r, nms, clock) ==
    /\ Woken(r, "rp_wait")
    /\ LET i == reqs[r].idx
           n == reqs[r].end
           j == IF Rest(r) = <<>> THEN n ELSE i
           g == replay_events(Guild, log, i, j, nms, clock)
       IN  /\ WeeklyCapped(g)
           /\ SetGuild(g)
           /\ IF j = n
              THEN /\ lockq' = Rest(r)
                   /\ reqs' = [reqs EXCEPT ![r].pc = "after", ![r].idx = 0,
                                           ![r].end = 0]
              ELSE /\ lockq' = Append(Rest(r), r)
                   /\ reqs' = [reqs EXCEPT ![r].idx = j + 1]
    /\ UNCHANGED <<log_channel_id, lock, log, budget>>

\* ----------------------------------------------------------- configuration
\* set_log_channel: the admin names the log channel.
SetLogChannel(clock) ==
    /\ LockFree
    /\ log_channel_id = None
    /\ SetGuild(ensure_guild(Guild, clock))
    /\ log_channel_id' = 1
    /\ UNCHANGED <<locks, reqs, log, budget>>

\* ------------------------------------------------------------ the program
Next ==
    \/ \E r \in Slots, k \in ButtonKinds : DeferFail(r, k) /\ UNCHANGED aux
    \/ \E r \in Slots, k \in ButtonKinds, m \in Members, nm \in Names, t \in Times :
          DeferBlock(r, k, m, nm, t) /\ UNCHANGED aux
    \/ \E r \in Slots, m \in Members, nm \in Names, t \in Times :
          CheckinCrit(r, m, nm, t) /\ UNCHANGED aux
    \/ \E r \in Slots, m \in Members, nm \in Names, t \in Times :
          ToggleCrit(r, m, nm, t) /\ UNCHANGED aux
    \/ \E r \in Slots, m \in Members, nm \in Names, t \in Times :
          CheckoutCrit(r, m, nm, t) /\ UNCHANGED aux
    \/ \E r \in Slots, m \in Members, nm \in Names, t \in Times :
          MyinfoCrit(r, m, nm, t) /\ UNCHANGED aux
    \/ \E r \in Slots : Returned(r) /\ UNCHANGED aux
    \/ \E r \in Slots : InfoSent(r) /\ UNCHANGED aux
    \/ \E r \in Slots : RejectSent(r) /\ UNCHANGED aux
    \/ \E r \in Slots : ReplyDone(r) /\ UNCHANGED aux
    \/ \E r \in Slots : ReplyFail(r) /\ UNCHANGED aux
    \/ \E r \in Slots : AfterBlock(r) /\ UNCHANGED aux
    \/ \E r \in Slots, t \in Times : AfterRun(r, t) /\ UNCHANGED <<hist, kept>>
    \/ \E r \in Slots : LogSent(r) /\ UNCHANGED aux
    \/ \E r \in Slots : LogFail(r) /\ UNCHANGED aux
    \/ \E t \in Times : SetLogChannel(t) /\ UNCHANGED aux
    \/ \E r \in Slots, m \in Members, nm \in Names, d \in Deltas :
          AdjustBlock(r, m, nm, d) /\ UNCHANGED aux
    \/ \E r \in Slots, m \in Members, nm \in Names, d \in Deltas, t \in Times :
          AdjustCrit(r, m, nm, d, t) /\ UNCHANGED aux
    \/ \E r \in Slots : SettleBlock(r) /\ UNCHANGED aux
    \/ \E r \in Slots, t \in Times : SettleCrit(r, t) /\ UNCHANGED aux
    \/ \E r \in Slots : SettleFail(r) /\ UNCHANGED aux
    \/ \E r \in Slots : SettleWait(r) /\ UNCHANGED aux
    \/ \E r \in Slots, t \in Times : SettleBegin(r, t) /\ UNCHANGED aux
    \/ \E r \in Slots : SettleRank(r) /\ UNCHANGED aux
    \/ \E r \in Slots, t \in Times : SettleZero(r, t) /\ UNCHANGED aux
    \/ \E r \in Slots : SettleLogSent(r) /\ UNCHANGED aux
    \/ \E r \in Slots : SettleLogFail(r) /\ UNCHANGED aux
    \/ \E r \in Slots : ReplayBlock(r) /\ UNCHANGED aux
    \/ \E r \in Slots, t \in Times : ReplayCrit(r, t) /\ UNCHANGED aux
    \/ \E r \in Slots, t \in Times : ReplayReset(r, t) /\ UNCHANGED aux
    \/ \E r \in Slots, nms \in [Members -> Names], t \in Times :
          ReplayFetch(r, nms, t) /\ UNCHANGED aux
    \/ \E r \in Slots, nms \in [Members -> Names], t \in Times :
          ReplayApply(r, nms, t) /\ UNCHANGED aux

Spec == Init /\ [][Next]_vars

\* ------------------------------------------- one handler at a time
\* The program when every handler ends before the next one starts: slot 1
\* runs them all, nobody ever waits for the lock.
InitSeq ==
    /\ users = <<>>
    /\ user_keys = <<>>
    /\ week_start = None
    /\ last_weekly_reset_log_id = None
    /\ log_channel_id = None
    /\ lock = None
    /\ lockq = <<>>
    /\ reqs = [r \in Slots |-> Idle]
    /\ log = <<>>
    /\ budget = MaxSeqOps
    /\ hist = <<>>
    /\ last_settlement_week_start = None
    /\ dashboard_hash = NoHash
    /\ panel = NoPanel
    /\ file = Snapshot

NextSeq ==
    \/ \E k \in ButtonKinds : DeferFail(1, k) /\ UNCHANGED aux
    \/ \E m \in Members, nm \in SeqNames, t \in Times :
          CheckinCrit(1, m, nm, t) /\ UNCHANGED aux
    \/ \E m \in Members, nm \in SeqNames, t \in Times :
          ToggleCrit(1, m, nm, t) /\ UNCHANGED aux
    \/ \E m \in Members, nm \in SeqNames, t \in Times :
          CheckoutCrit(1, m, nm, t) /\ UNCHANGED aux
    \/ \E m \in Members, nm \in SeqNames, t \in Times :
          MyinfoCrit(1, m, nm, t) /\ UNCHANGED aux
    \/ Returned(1) /\ UNCHANGED aux
    \/ InfoSent(1) /\ UNCHANGED aux
    \/ RejectSent(1) /\ UNCHANGED aux
    \/ ReplyDone(1) /\ UNCHANGED aux
    \/ ReplyFail(1) /\ UNCHANGED aux
    \/ \E t \in Times : AfterRun(1, t) /\ UNCHANGED <<hist, kept>>
    \/ LogSent(1) /\ UNCHANGED aux
    \/ LogFail(1) /\ UNCHANGED aux
    \/ \E t \in Times : SetLogChannel(t) /\ UNCHANGED aux
    \/ \E m \in Members, nm \in SeqNames, d \in Deltas, t \in Times :
          AdjustCrit(1, m, nm, d, t) /\ UNCHANGED aux
    \/ \E t \in Times : SettleCrit(1, t) /\ UNCHANGED aux
    \/ SettleFail(1) /\ UNCHANGED aux
    \/ \E t \in Times : SettleBegin(1, t) /\ UNCHANGED aux
    \/ SettleRank(1) /\ UNCHANGED aux
    \/ \E t \in Times : SettleZero(1, t) /\ UNCHANGED aux
    \/ SettleLogSent(1) /\ UNCHANGED aux
    \/ SettleLogFail(1) /\ UNCHANGED aux
    \/ \E t \in Times : ReplayCrit(1, t) /\ UNCHANGED aux
    \/ \E nms \in [Members -> SeqNames], t \in Times :
          ReplayFetch(1, nms, t) /\ UNCHANGED aux

SpecSeq == InitSeq /\ [][NextSeq]_vars

\* ------------------------------------------------------------ observation
\* The observer notes every critical section of a button that ends in this
\* step: which button, whose, with which `now`, how it ended, and the line
\* and the studied seconds of an accepted one.
Noted(r) ==
    /\ reqs[r].outcome = "none"
    /\ reqs'[r].outcome \in {"accepted", "rejected"}

Note(q) == [kind |-> q.kind, member |-> q.member, now |-> q.now,
            outcome |-> q.outcome, action |-> q.log_text.action,
            studied_sec |-> q.log_text.studied_sec]

Watch ==
    hist' = IF \E r \in Slots : Noted(r)
            THEN Append(hist, Note(reqs'[CHOOSE r \in Slots : Noted(r)]))
            ELSE hist

Watched == Watch /\ UNCHANGED <<last_settlement_week_start, kept>>

\* The latest instant the observer has noted.
LastNoted == IF hist = <<>> THEN 0 ELSE hist[Len(hist)].now

\* ------------------------------------------- one member, a steady clock
\* One member presses the buttons, one press at a time, within one week and
\* under a clock that never steps back; instants are single ticks.
SessionTimes == 0..MaxTick

InitSession ==
    /\ users = <<>>
    /\ user_keys = <<>>
    /\ week_start = None
    /\ last_weekly_reset_log_id = None
    /\ log_channel_id = None
    /\ lock = None
    /\ lockq = <<>>
    /\ reqs = [r \in Slots |-> Idle]
    /\ log = <<>>
    /\ budget = MaxSessionOps
    /\ hist = <<>>
    /\ last_settlement_week_start = None
    /\ dashboard_hash = NoHash
    /\ panel = NoPanel
    /\ file = Snapshot

NextSession ==
    \/ \E t \in SessionTimes :
          t >= LastNoted /\ CheckinCrit(1, 1, 1, t) /\ Watched
    \/ \E t \in SessionTimes :
          t >= LastNoted /\ ToggleCrit(1, 1, 1, t) /\ Watched
    \/ \E t \in SessionTimes :
          t >= LastNoted /\ CheckoutCrit(1, 1, 1, t) /\ Watched
    \/ RejectSent(1) /\ Watched
    \/ ReplyDone(1) /\ Watched
    \/ ReplyFail(1) /\ Watched
    \/ \E t \in SessionTimes : t >= LastNoted /\ AfterRun(1, t) /\ Watch /\ UNCHANGED kept

SpecSession == InitSession /\ [][NextSession]_vars

\* --------------------------------------------- two check-outs at the lock
\* Member 1 is in a session and two check-outs of that member wait for
\* store.lock (the lock was held by a rejection that has just been sent);
\* nothing else starts.
SessionUsers ==
    {[NewUser(1) EXCEPT !.status = "work", !.start_time = t0] : t0 \in Times}
    \cup {[NewUser(1) EXCEPT !.status = "break", !.start_time = t0,
                             !.break_start = bs] : t0 \in Times, bs \in Times}

InitRace ==
    /\ \E u \in SessionUsers : users = (1 :> u) @@ (2 :> NewUser(1))
    /\ user_keys = <<1, 2>>
    /\ week_start \in {week_start_kst(DateOf(t)) : t \in Times}
    /\ last_weekly_reset_log_id = None
    /\ log_channel_id \in {None, 1}
    /\ lock = None
    /\ lockq = <<1, 2>>
    /\ \E ta \in Times, tb \in Times :
          reqs = [r \in Slots |->
                    IF r = 1
                    THEN [Started("checkout", 1, 1, ta, 0) EXCEPT !.pc = "wait"]
                    ELSE IF r = 2
                    THEN [Started("checkout", 1, 1, tb, 0) EXCEPT !.pc = "wait"]
                    ELSE Idle]
    /\ log = <<>>
    /\ budget = 0
    /\ hist = <<>>
    /\ last_settlement_week_start = None
    /\ dashboard_hash = NoHash
    /\ panel = NoPanel
    /\ file = Snapshot

NextRace ==
    \/ \E r \in Slots, t \in Times : CheckoutCrit(r, 1, 1, t) /\ Watched
    \/ \E r \in Slots : RejectSent(r) /\ Watched
    \/ \E r \in Slots : ReplyDone(r) /\ Watched
    \/ \E r \in Slots : ReplyFail(r) /\ Watched
    \/ \E r \in Slots : AfterBlock(r) /\ Watched
    \/ \E r \in Slots, t \in Times : AfterRun(r, t) /\ Watch /\ UNCHANGED kept
    \/ \E r \in Slots : LogSent(r) /\ Watched
    \/ \E r \in Slots : LogFail(r) /\ Watched

SpecRace == InitRace /\ [][NextRace]_vars

\* ------------------------------------------- rebuilding from the log
\* The state file is lost and the store starts empty (_load_sync falls back
\* to {"guilds": {}}); the log channel keeps its messages.  The admin names
\* the log channel again and runs the replay command.  log_ch.history hands
\* the messages over page by page, awaiting each page; a page holds one
\* message here, so the clock may move between any two messages.
FirstTime == CHOOSE t \in Times : \A x \in Times : t <= x
LastTime == CHOOSE t \in Times : \A x \in Times : x <= t

\* The messages a log channel may hold: the lines of a session of member 1
\* (check-in and break start on Sunday noon, break end and check-out twelve
\* hours later, the check-out carrying studied_sec = StudiedLogged), a
\* check-out of member 2, a weekly_reset line, a SYSTEM line of another
\* action, and a message that is no [STUDYLOG] line (a settlement notice).
ReplayLines ==
    { make_log("checkin", 1, FirstTime, None, None),
      make_log("break_start", 1, FirstTime, None, None),
      make_log("break_end", 1, LastTime, None, None),
      make_log("checkout", 1, LastTime, StudiedLogged, 1),
      make_log("checkout", 2, FirstTime, StudiedLogged, 1),
      make_system_log("weekly_reset", FirstTime),
      make_system_log("time_adjust", FirstTime),
      NoLog }

\* The lines of one session of member 1, from check-in to check-out.
SessionLog ==
    << make_log("checkin", 1, FirstTime, None, None),
       make_log("break_start", 1, FirstTime, None, None),
       make_log("break_end", 1, LastTime, None, None),
       make_log("checkout", 1, LastTime, StudiedLogged, 1) >>

LogSegments ==
    UNION {[1..n -> ReplayLines] : n \in 0..MaxReplayLog} \cup {SessionLog}

InitReplay ==
    /\ users = <<>>
    /\ user_keys = <<>>
    /\ week_start = None
    /\ last_weekly_reset_log_id = None
    /\ log_channel_id = None
    /\ lock = None
    /\ lockq = <<>>
    /\ reqs = [r \in Slots |-> Idle]
    /\ log \in LogSegments
    /\ budget = MaxReplayOps
    /\ hist = <<>>
    /\ last_settlement_week_start = None
    /\ dashboard_hash = NoHash
    /\ panel = NoPanel
    /\ file = Snapshot

\* The next page of the history: no message is left and the loop ends; or
\* the message raises and the command ends with it; or the message is applied
\* (or passed over) and the loop goes on.
ReplayPage(r, nms, clock) ==
    /\ reqs[r].pc = "rp_fetch"
    /\ LockFree
    /\ LET i == reqs[r].idx
       IN  IF i > Len(log)
           THEN /\ reqs' = [reqs EXCEPT ![r].pc = "after", ![r].idx = 0]
                /\ UNCHANGED data
           ELSE IF replay_raises(log[i])
           THEN /\ reqs' = [reqs EXCEPT ![r] = Idle]
                /\ UNCHANGED data
           ELSE /\ reqs' = [reqs EXCEPT ![r].idx = i + 1]
                /\ SetGuild(replay_event(Guild, log[i], i, nms, clock))
    /\ UNCHANGED <<log_channel_id, locks, log, budget>>

\* The state file is lost between two runs of the bot.
Wipe ==
    /\ \A r \in Slots : reqs[r].pc = "idle"
    /\ week_start # None
    /\ budget > 0
    /\ users' = <<>>
    /\ user_keys' = <<>>
    /\ week_start' = None
    /\ last_weekly_reset_log_id' = None
    /\ log_channel_id' = None
    /\ last_settlement_week_start' = None
    /\ UNCHANGED <<locks, reqs, log, budget>>

\* The observer notes the end of every replay run, with the state the run
\* leaves and whether it ended by raising, and every step of a run in which
\* the guild's week moves on.
ReplayEnded(r) ==
    /\ reqs[r].pc = "rp_fetch"
    /\ reqs'[r].pc # "rp_fetch"

WeekMoved == week_start # None /\ week_start' # None /\ week_start' # week_start

ReplayNote(what) ==
    [what |-> what, users |-> users', checkpoint |-> last_weekly_reset_log_id']

WatchReplay ==
    /\ hist' = IF \E r \in Slots : ReplayEnded(r)
               THEN LET r == CHOOSE q \in Slots : ReplayEnded(q)
                    IN  Append(hist, ReplayNote(IF reqs'[r].pc = "after"
                                                THEN "done" ELSE "raised"))
               ELSE IF WeekMoved THEN Append(hist, ReplayNote("week"))
               ELSE hist
    /\ UNCHANGED <<last_settlement_week_start, kept>>

NamesNow == [m \in Members |-> 1]

\* The store holds no member and no checkpoint: the replay command is only
\* run to rebuild a lost state.
StoreEmpty == users = <<>> /\ last_weekly_reset_log_id = None

NextReplay ==
    \/ \E t \in Times : SetLogChannel(t) /\ WatchReplay
    \/ \E t \in Times : StoreEmpty /\ ReplayCrit(1, t) /\ WatchReplay
    \/ InfoSent(1) /\ WatchReplay
    \/ \E t \in Times : ReplayPage(1, NamesNow, t) /\ WatchReplay
    \/ \E t \in Times : AfterRun(1, t) /\ UNCHANGED <<hist, kept>>
    \/ Wipe /\ UNCHANGED <<hist, kept>>

SpecReplay == InitReplay /\ [][NextReplay]_vars

\* ------------------------------------------------- the weekly ranking
\* A settlement over a guild of up to MaxRanked members.  The first three
\* members have any of the totals of RankSecs, the later ones share one
\* total; the dict holds the members in ascending or in descending order of
\* their ids.  The observer notes the ranking the settlement builds.
RankSecs == {0, 1200, 3600, 7200}

RankedUsers ==
    {[m \in 1..n |-> [NewUser(1) EXCEPT !.weekly_total_sec =
                                          IF m <= 3 THEN first[m] ELSE rest]] :
        n \in 0..MaxRanked, first \in [1..3 -> RankSecs], rest \in {0, 1200}}

InitRank ==
    /\ users \in RankedUsers
    /\ user_keys \in {[i \in 1..Len(users) |-> i],
                      [i \in 1..Len(users) |-> Len(users) + 1 - i]}
    /\ week_start = week_start_kst(DateOf(FirstTime))
    /\ last_weekly_reset_log_id = None
    /\ log_channel_id = None
    /\ lock = None
    /\ lockq = <<>>
    /\ reqs = [r \in Slots |-> Idle]
    /\ log = <<>>
    /\ budget = 1
    /\ hist = <<>>
    /\ last_settlement_week_start = None
    /\ dashboard_hash = NoHash
    /\ panel = NoPanel
    /\ file = Snapshot

WatchRank ==
    /\ hist' = Append(hist, build_weekly_ranking_lines(users, user_keys))
    /\ UNCHANGED <<last_settlement_week_start, kept>>

NextRank ==
    \/ SettleCrit(1, FirstTime) /\ UNCHANGED aux
    \/ SettleBegin(1, FirstTime) /\ UNCHANGED aux
    \/ SettleRank(1) /\ WatchRank
    \/ SettleZero(1, FirstTime) /\ UNCHANGED aux
    \/ AfterRun(1, FirstTime) /\ UNCHANGED <<hist, kept>>

SpecRank == InitRank /\ [][NextRank]_vars

\* ------------------------------------------- the scheduled settlement
\* auto_weekly_settlement is a tasks.loop: one iteration runs at a time, and
\* an iteration returns at once unless the day is a Sunday.  There is one
\* guild, and a guild has a text channel for the settlement to fall back on.
AutoRunning == \E q \in Slots : reqs[q].kind = "auto"

AutoReq == Started("auto", 0, 0, None, 0)

\* The loop fires on a Sunday and finds store.lock taken.
AutoBlock(r, clock) ==
    /\ ~AutoRunning
    /\ Weekday(DateOf(clock)) = 6
    /\ Blocks(r, AutoReq)

\* `if g.get("last_settlement_week_start") == ws: continue`
already_settled(g) == last_settlement_week_start = g.week_start

\* The first section of an iteration: ensure_guild, ensure_week_current and
\* the test of the marker, which ends the iteration when it names the
\* current week.  Otherwise `async with store.lock: g_live = ...` follows
\* with no await in between: with nobody in the queue the iteration takes
\* the lock again at once and run_weekly_settlement starts (its
\* ensure_week_current finds the week it was just given); with a waiter in
\* the queue the iteration joins the queue behind it.
AutoCrit(r, clock) ==
    /\ Enters(r, "auto")
    /\ SlotFree(r) => ~AutoRunning /\ Weekday(DateOf(clock)) = 6
    /\ LET g == ensure_week_current(ensure_guild(Guild, clock), clock)
       IN  /\ SetGuild(g)
           /\ lock' = lock
           /\ IF already_settled(g)
              THEN /\ lockq' = Rest(r)
                   /\ reqs' = [reqs EXCEPT ![r] = Idle]
              ELSE IF Rest(r) = <<>>
              THEN /\ lockq' = <<>>
                   /\ reqs' = [reqs EXCEPT ![r] = [AutoReq EXCEPT !.pc = "st_msgs"]]
              ELSE /\ lockq' = Append(Rest(r), r)
                   /\ reqs' = [reqs EXCEPT ![r] = [AutoReq EXCEPT !.pc = "st_wait"]]
    /\ UNCHANGED <<log_channel_id, log>>

\* The instants of this specification: those of Times and 12:00 of the
\* Sunday one week after the first.
AutoTimes == Times \cup {FirstTime + 7 * TicksPerDay}

\* The clock does not go back to a week before the one the guild is in.
NotBefore(t) == week_start = None \/ week_start_kst(DateOf(t)) >= week_start

\* The observer notes, with the guild's week after the step: a settlement
\* run that starts ("begun"), a run that zeroes the totals ("zeroed"), and
\* a run that stores the marker ("marked").
Begun(r) == reqs[r].pc # "st_msgs" /\ reqs'[r].pc = "st_msgs"
Zeroed(r) == reqs[r].pc = "st_rank" /\ reqs'[r].pc # "st_rank"
Marked(r) ==
    /\ reqs[r].kind \in SettleKinds
    /\ reqs[r].pc \in {"after", "after_wait"}
    /\ reqs'[r].pc = "idle"

AutoNote(what, r) ==
    [what |-> what,
     kind |-> IF reqs'[r].kind = "none" THEN reqs[r].kind ELSE reqs'[r].kind,
     week |-> week_start']

WatchAuto ==
    hist' = IF \E r \in Slots : Begun(r)
            THEN Append(hist, AutoNote("begun", CHOOSE r \in Slots : Begun(r)))
            ELSE IF \E r \in Slots : Zeroed(r)
            THEN Append(hist, AutoNote("zeroed", CHOOSE r \in Slots : Zeroed(r)))
            ELSE IF \E r \in Slots : Marked(r)
            THEN Append(hist, AutoNote("marked", CHOOSE r \in Slots : Marked(r)))
            ELSE hist

WatchedAuto == WatchAuto /\ UNCHANGED <<last_settlement_week_start, kept>>

\* A guild in its first week: member 1 is off and has a weekly total; the
\* log channel is configured or not; nothing was settled yet.
InitAuto ==
    /\ users = (1 :> [NewUser(1) EXCEPT !.weekly_total_sec = 3600])
    /\ user_keys = <<1>>
    /\ week_start = week_start_kst(DateOf(FirstTime))
    /\ last_weekly_reset_log_id = None
    /\ log_channel_id \in {None, 1}
    /\ lock = None
    /\ lockq = <<>>
    /\ reqs = [r \in Slots |-> Idle]
    /\ log = <<>>
    /\ budget = MaxAutoOps
    /\ hist = <<>>
    /\ last_settlement_week_start = None
    /\ dashboard_hash = NoHash
    /\ panel = NoPanel
    /\ file = Snapshot

\* The scheduled settlement, the manual one, and member 1 pressing check-out
\* (rejected, as the member is off).
NextAuto ==
    \/ \E r \in Slots, t \in AutoTimes :
          NotBefore(t) /\ AutoBlock(r, t) /\ WatchedAuto
    \/ \E r \in Slots, t \in AutoTimes :
          NotBefore(t) /\ AutoCrit(r, t) /\ WatchedAuto
    \/ \E r \in Slots : SettleBlock(r) /\ WatchedAuto
    \/ \E r \in Slots, t \in AutoTimes :
          NotBefore(t) /\ SettleCrit(r, t) /\ WatchedAuto
    \/ \E r \in Slots : SettleFail(r) /\ WatchedAuto
    \/ \E r \in Slots : SettleWait(r) /\ WatchedAuto
    \/ \E r \in Slots, t \in AutoTimes :
          NotBefore(t) /\ SettleBegin(r, t) /\ WatchedAuto
    \/ \E r \in Slots : SettleRank(r) /\ WatchedAuto
    \/ \E r \in Slots, t \in AutoTimes :
          NotBefore(t) /\ SettleZero(r, t) /\ WatchedAuto
    \/ \E r \in Slots : SettleLogSent(r) /\ WatchedAuto
    \/ \E r \in Slots : SettleLogFail(r) /\ WatchedAuto
    \/ \E r \in Slots : AfterBlock(r) /\ WatchedAuto
    \/ \E r \in Slots, t \in AutoTimes :
          NotBefore(t) /\ AfterRun(r, t) /\ WatchAuto /\ UNCHANGED kept
    \/ \E r \in Slots, t \in AutoTimes :
          NotBefore(t) /\ DeferBlock(r, "checkout", 1, 1, t) /\ WatchedAuto
    \/ \E r \in Slots, t \in AutoTimes :
          NotBefore(t) /\ CheckoutCrit(r, 1, 1, t) /\ WatchedAuto
    \/ \E r \in Slots : RejectSent(r) /\ WatchedAuto

SpecAuto == InitAuto /\ [][NextAuto]_vars

\* The same program when the event loop keeps running what is ready and
\* every external call returns (or raises): a step that can be taken is
\* taken.
SpecAutoFair == SpecAuto /\ WF_vars(NextAuto)

\* ------------------------------------- a check-out during a settlement
\* The observer notes the ranking a settlement run builds, with the slot of
\* the run.
WatchCredit ==
    /\ hist' = IF \E r \in Slots : reqs[r].pc = "st_msgs" /\ reqs'[r].pc = "st_rank"
               THEN Append(hist,
                           [slot |-> CHOOSE r \in Slots :
                                        reqs[r].pc = "st_msgs"
                                            /\ reqs'[r].pc = "st_rank",
                            ranking |-> build_weekly_ranking_lines(users,
                                                                   user_keys)])
               ELSE hist
    /\ UNCHANGED <<last_settlement_week_start, kept>>

\* A guild in its first week on the Sunday of the settlement: member 1 has
\* a weekly total of one hour and has been at work for another hour.
InitCredit ==
    /\ users = (1 :> [NewUser(1) EXCEPT
                         !.status = "work",
                         !.start_time = dt_to_iso(FirstTime - 3600 * TicksPerSec),
                         !.weekly_total_sec = 3600])
    /\ user_keys = <<1>>
    /\ week_start = week_start_kst(DateOf(FirstTime))
    /\ last_weekly_reset_log_id = None
    /\ log_channel_id \in {None, 1}
    /\ lock = None
    /\ lockq = <<>>
    /\ reqs = [r \in Slots |-> Idle]
    /\ log = <<>>
    /\ budget = MaxCreditOps
    /\ hist = <<>>
    /\ last_settlement_week_start = None
    /\ dashboard_hash = NoHash
    /\ panel = NoPanel
    /\ file = Snapshot

\* The scheduled settlement, the manual one, and member 1 pressing
\* check-out, under a clock that stays in the guild's week or moves on.
NextCredit ==
    \/ \E r \in Slots, t \in Times :
          NotBefore(t) /\ AutoBlock(r, t) /\ WatchCredit
    \/ \E r \in Slots, t \in Times :
          NotBefore(t) /\ AutoCrit(r, t) /\ WatchCredit
    \/ \E r \in Slots : SettleBlock(r) /\ WatchCredit
    \/ \E r \in Slots, t \in Times :
          NotBefore(t) /\ SettleCrit(r, t) /\ WatchCredit
    \/ \E r \in Slots : SettleFail(r) /\ WatchCredit
    \/ \E r \in Slots : SettleWait(r) /\ WatchCredit
    \/ \E r \in Slots, t \in Times :
          NotBefore(t) /\ SettleBegin(r, t) /\ WatchCredit
    \/ \E r \in Slots : SettleRank(r) /\ WatchCredit
    \/ \E r \in Slots, t \in Times :
          NotBefore(t) /\ SettleZero(r, t) /\ WatchCredit
    \/ \E r \in Slots : SettleLogSent(r) /\ WatchCredit
    \/ \E r \in Slots : SettleLogFail(r) /\ WatchCredit
    \/ \E r \in Slots : AfterBlock(r) /\ WatchCredit
    \/ \E r \in Slots, t \in Times :
          NotBefore(t) /\ AfterRun(r, t) /\ UNCHANGED <<hist, kept>>
    \/ \E r \in Slots, t \in Times :
          NotBefore(t) /\ DeferBlock(r, "checkout", 1, 1, t) /\ WatchCredit
    \/ \E r \in Slots, t \in Times :
          NotBefore(t) /\ CheckoutCrit(r, 1, 1, t) /\ WatchCredit
    \/ \E r \in Slots : RejectSent(r) /\ WatchCredit
    \/ \E r \in Slots : ReplyDone(r) /\ WatchCredit
    \/ \E r \in Slots : ReplyFail(r) /\ WatchCredit
    \/ \E r \in Slots : LogSent(r) /\ WatchCredit
    \/ \E r \in Slots : LogFail(r) /\ WatchCredit

SpecCredit == InitCredit /\ [][NextCredit]_vars

\* ------------------------------------------------- a restart of the process
\* What load_once reads back from the state file.
Loaded == [users |-> file.users, user_keys |-> file.user_keys,
           week_start |-> file.week_start,
           last_weekly_reset_log_id |-> file.last_weekly_reset_log_id]

\* setup_hook and on_ready: load_once reads the state file, and once the bot
\* is connected on_ready runs ensure_guild and ensure_week_current on what
\* was loaded.  The log channel is never read.
reloaded(clock) == ensure_week_current(ensure_guild(Loaded, clock), clock)

\* The process ends, at any moment, and starts again: every coroutine and
\* the lock are gone, the store is what reloaded gives, and on_ready saves.
\* No panel is installed, so on_ready's update_dashboard returns at once.
Restart(clock) ==
    /\ budget > 0
    /\ budget' = budget - 1
    /\ SetGuild(reloaded(clock))
    /\ log_channel_id' = file.log_channel_id
    /\ last_settlement_week_start' = file.last_settlement_week_start
    /\ dashboard_hash' = file.dashboard_hash
    /\ lock' = None
    /\ lockq' = <<>>
    /\ reqs' = [r \in Slots |-> Idle]
    /\ file' = Snapshot'
    /\ UNCHANGED <<log, panel, hist>>

\* store.save_now_locked() runs in this step exactly when c holds.
SavedIf(c) ==
    /\ UNCHANGED <<hist, last_settlement_week_start, dashboard_hash, panel>>
    /\ file' = IF c THEN Snapshot' ELSE file

\* The critical section of slot 1 ends by accepting: it has saved.
AcceptedNow == reqs'[1].outcome = "accepted" /\ reqs[1].outcome # "accepted"

InitRestart ==
    /\ users = <<>>
    /\ user_keys = <<>>
    /\ week_start = None
    /\ last_weekly_reset_log_id = None
    /\ log_channel_id \in {None, 1}
    /\ lock = None
    /\ lockq = <<>>
    /\ reqs = [r \in Slots |-> Idle]
    /\ log = <<>>
    /\ budget = MaxRestartOps
    /\ hist = <<>>
    /\ last_settlement_week_start = None
    /\ dashboard_hash = NoHash
    /\ panel = NoPanel
    /\ file = Snapshot

\* Member 1 presses the buttons, one press at a time, and the process is
\* restarted now and then.
NextRestart ==
    \/ \E t \in Times : CheckinCrit(1, 1, 1, t) /\ SavedIf(AcceptedNow)
    \/ \E t \in Times : ToggleCrit(1, 1, 1, t) /\ SavedIf(AcceptedNow)
    \/ \E t \in Times : CheckoutCrit(1, 1, 1, t) /\ SavedIf(AcceptedNow)
    \/ RejectSent(1) /\ SavedIf(FALSE)
    \/ ReplyDone(1) /\ SavedIf(FALSE)
    \/ ReplyFail(1) /\ SavedIf(FALSE)
    \/ \E t \in Times : AfterRun(1, t) /\ SavedIf(FALSE)
    \/ LogSentUpTo(1, MaxRestartOps) /\ SavedIf(FALSE)
    \/ LogFail(1) /\ SavedIf(FALSE)
    \/ \E t \in Times : Restart(t)

SpecRestart == InitRestart /\ [][NextRestart]_vars

\* ------------------------------------------------------- the log codec
\* A text is a sequence of characters.  The marker, the field names, the
\* actions, a uid and an isoformat instant hold none of the characters the
\* codec treats specially, so each of them is one character here.
LOG_PREFIX == "[STUDYLOG]"

White == {" ", "\n"}

RECURSIVE lstrip(_)
lstrip(s) == IF s # <<>> /\ Head(s) \in White THEN lstrip(Tail(s)) ELSE s

RECURSIVE rstrip(_)
rstrip(s) ==
    IF s # <<>> /\ s[Len(s)] \in White THEN rstrip(SubSeq(s, 1, Len(s) - 1))
    ELSE s

\* str.strip()
strip(s) == rstrip(lstrip(s))

\* str.replace(old, new) for single characters
replace(s, old, new) == [i \in 1..Len(s) |-> IF s[i] = old THEN new ELSE s[i]]

\* A faulty safe_str: semicolons are kept.
safe_str_keeps_semicolons(v) == strip(replace(v, "\n", " "))

safe_str(v) == strip(replace(replace(v, "\n", " "), ";", ","))

\* sep.join(parts)
RECURSIVE join(_, _)
join(parts, sep) ==
    IF parts = <<>> THEN <<>>
    ELSE IF Len(parts) = 1 THEN parts[1]
    ELSE parts[1] \o sep \o join(Tail(parts), sep)

\* s.split(sep) for a single character sep
RECURSIVE split(_, _)
split(s, sep) ==
    LET at == {i \in 1..Len(s) : s[i] = sep}
    IN  IF at = {} THEN <<s>>
        ELSE LET i == CHOOSE x \in at : \A y \in at : x <= y
             IN  <<SubSeq(s, 1, i - 1)>> \o split(SubSeq(s, i + 1, Len(s)), sep)

\* make_log with one action-specific field, note: the text of the line.
make_log_line(action, uid, name, ts, note) ==
    LET base == << <<"action", action>>, <<"uid", uid>>,
                   <<"name", safe_str(name)>>, <<"ts", ts>>,
                   <<"note", safe_str(note)>> >>
        parts == [i \in 1..Len(base) |-> <<base[i][1], "=">> \o base[i][2]]
    IN  <<LOG_PREFIX, " ">> \o join(parts, <<";", " ">>)

\* What parse_log_line returns for a line that is no event (None).
NoEvent == <<>>

\* parse_log_line: the dict of the line, from field name to value.
parse_log_line(line) ==
    IF line = <<>> \/ Head(line) # LOG_PREFIX THEN NoEvent
    ELSE LET payload == strip(Tail(line))
             raw == split(payload, ";")
             parts == [i \in 1..Len(raw) |-> strip(raw[i])]
             eq(p) == CHOOSE x \in 1..Len(p) :
                         p[x] = "=" /\ \A y \in 1..(x - 1) : p[y] # "="
             key(p) == strip(SubSeq(p, 1, eq(p) - 1))
             val(p) == strip(SubSeq(p, eq(p) + 1, Len(p)))
             pairs == SelectSeq(parts, LAMBDA p : \E x \in 1..Len(p) : p[x] = "=")
             keys == {key(pairs[i]) : i \in 1..Len(pairs)}
             last(k) == CHOOSE i \in 1..Len(pairs) :
                           /\ key(pairs[i]) = k
                           /\ \A j \in (i + 1)..Len(pairs) : key(pairs[j]) # k
             out == [k \in keys |-> val(pairs[last(k)])]
         IN  IF <<"action">> \in keys /\ out[<<"action">>] # <<>> THEN out
             ELSE NoEvent

\* The characters of a display name or of a field value.
Chars == {"a", ";", "\n", " ", "="}

Texts(n) == UNION {[1..k -> Chars] : k \in 0..n}

\* An event is handed to make_log (hist holds it), the line is sent to the
\* log channel, and parse_log_line reads the message back.
InitCodec ==
    /\ users = <<>>
    /\ user_keys = <<>>
    /\ week_start = None
    /\ last_weekly_reset_log_id = None
    /\ log_channel_id = 1
    /\ lock = None
    /\ lockq = <<>>
    /\ reqs = [r \in Slots |-> Idle]
    /\ log = <<>>
    /\ budget = 1
    /\ hist \in {<<[action |-> <<a>>, uid |-> <<"7">>, name |-> n, ts |-> <<"T">>,
                    note |-> v]>> :
                    a \in {"checkin", "checkout"}, n \in Texts(MaxText),
                    v \in Texts(MaxNote)}
    /\ last_settlement_week_start = None
    /\ dashboard_hash = NoHash
    /\ panel = NoPanel
    /\ file = Snapshot

LineSent ==
    /\ log = <<>>
    /\ log' = <<make_log_line(hist[1].action, hist[1].uid, hist[1].name,
                              hist[1].ts, hist[1].note)>>
    /\ UNCHANGED <<data, log_channel_id, locks, reqs, budget, aux>>

LineParsed ==
    /\ log # <<>>
    /\ Len(hist) = 1
    /\ hist' = Append(hist, parse_log_line(log[1]))
    /\ UNCHANGED <<data, log_channel_id, locks, reqs, log, budget,
                   last_settlement_week_start, kept>>

NextCodec == LineSent \/ LineParsed

SpecCodec == InitCodec /\ [][NextCodec]_vars

\* ------------------------------------------------------------ the panel
\* fmt_hhmm: hours and minutes of a number of seconds.
fmt_hhmm(sec) == <<Max(sec, 0) \div 3600, (Max(sec, 0) % 3600) \div 60>>

\* build_dashboard_text: a line per member at work, in the order of the
\* dict, with the time studied so far, then a line per member on a break;
\* no line at all stands for the text shown when nobody studies.
build_dashboard_text(g, now) ==
    LET line(m) == IF g.users[m].status = "work"
                   THEN <<"work", g.users[m].name,
                          fmt_hhmm(calc_effective_study_sec(g.users[m], now))>>
                   ELSE <<"break", g.users[m].name>>
        at(st) == SelectSeq(g.user_keys, LAMBDA m : g.users[m].status = st)
    IN  [i \in 1..Len(at("work")) |-> line(at("work")[i])]
            \o [i \in 1..Len(at("break")) |-> line(at("break")[i])]

\* dashboard_hash(description): the sha256 digest, which is the same for two
\* texts exactly when the texts are the same.
sha256_of(description) == <<"sha256", description>>

\* auto_dashboard_refresh while nobody waits for the lock: the first section
\* (ensure_guild and ensure_week_current), then `async with store.lock: g =
\* ...` with no await in between, then update_dashboard(force=False), which
\* returns at once without a panel and otherwise awaits fetch_panel_message.
RefreshCrit(r, clock) ==
    /\ Enters(r, "refresh")
    /\ Rest(r) = <<>>
    /\ SetGuild(ensure_week_current(ensure_guild(Guild, clock), clock))
    /\ lock' = lock
    /\ lockq' = <<>>
    /\ reqs' = [reqs EXCEPT ![r] =
                   [Started("refresh", 0, 0, None, 0) EXCEPT
                       !.pc = IF panel.installed THEN "dash_fetch"
                              ELSE "rf_save"]]
    /\ UNCHANGED <<log_channel_id, log>>

\* update_dashboard is over for slot r: a handler ends, the periodic refresh
\* goes on to its closing save.
Updated(r, how) ==
    IF reqs[r].kind = "refresh"
    THEN [reqs[r] EXCEPT !.pc = "rf_save", !.outcome = how]
    ELSE Idle

\* fetch_panel_message returned None (the message is gone or the fetch
\* raised): update_dashboard returns.
DashNoPanel(r) ==
    /\ reqs[r].pc = "dash_fetch"
    /\ reqs' = [reqs EXCEPT ![r] = Updated(r, "no_panel")]
    /\ UNCHANGED <<data, log_channel_id, locks, log, budget, hist,
                   last_settlement_week_start, kept>>

\* fetch_panel_message returned the message: the summary is built from the
\* live state (no lock is held); a refresh that is not forced returns when
\* the stored fingerprint is that of the summary; otherwise the fingerprint
\* is stored (guild_data["dashboard_hash"] = h) and then msg.edit is awaited.
DashFetched(r, clock) ==
    /\ reqs[r].pc = "dash_fetch"
    /\ LET desc == build_dashboard_text(Guild, clock)
           h == sha256_of(desc)
           force == reqs[r].kind # "refresh"
       IN  IF ~force /\ dashboard_hash = h
           THEN /\ reqs' = [reqs EXCEPT ![r] =
                               [Updated(r, "same") EXCEPT !.desc = desc]]
                /\ UNCHANGED dashboard_hash
           ELSE /\ reqs' = [reqs EXCEPT ![r].pc = "dash_edit", ![r].desc = desc]
                /\ dashboard_hash' = h
    /\ UNCHANGED <<data, log_channel_id, locks, log, budget, hist,
                   last_settlement_week_start, file, panel>>

\* msg.edit returned: the panel shows the summary.
EditDone(r) ==
    /\ reqs[r].pc = "dash_edit"
    /\ panel' = [panel EXCEPT !.shown = reqs[r].desc]
    /\ reqs' = [reqs EXCEPT ![r] = Updated(r, "edited")]
    /\ UNCHANGED <<data, log_channel_id, locks, log, budget, hist,
                   last_settlement_week_start, file, dashboard_hash>>

\* msg.edit raised: update_dashboard swallows it.
EditFail(r) ==
    /\ reqs[r].pc = "dash_edit"
    /\ reqs' = [reqs EXCEPT ![r] = Updated(r, "failed")]
    /\ UNCHANGED <<data, log_channel_id, locks, log, budget, hist,
                   last_settlement_week_start, kept>>

\* The closing `async with store.lock: store.save_now_locked()` of the
\* periodic refresh.
RefreshSave(r) ==
    /\ reqs[r].pc = "rf_save"
    /\ LockFree
    /\ UNCHANGED locks
    /\ reqs' = [reqs EXCEPT ![r] = Idle]
    /\ UNCHANGED <<data, log_channel_id, log, budget, hist,
                   last_settlement_week_start, dashboard_hash, panel>>
    /\ file' = Snapshot'

\* A guild whose panel is installed and shows that nobody studies; member 1
\* presses the buttons and the periodic refresh runs, one at a time.
InitPanel ==
    /\ users = <<>>
    /\ user_keys = <<>>
    /\ week_start = week_start_kst(DateOf(FirstTime))
    /\ last_weekly_reset_log_id = None
    /\ log_channel_id = None
    /\ lock = None
    /\ lockq = <<>>
    /\ reqs = [r \in Slots |-> Idle]
    /\ log = <<>>
    /\ budget = MaxPanelOps
    /\ hist = <<>>
    /\ last_settlement_week_start = None
    /\ dashboard_hash = sha256_of(<<>>)
    /\ panel = [installed |-> TRUE, shown |-> <<>>]
    /\ file = Snapshot

NextPanel ==
    \/ \E t \in Times : CheckinCrit(1, 1, 1, t) /\ UNCHANGED aux
    \/ \E t \in Times : ToggleCrit(1, 1, 1, t) /\ UNCHANGED aux
    \/ \E t \in Times : CheckoutCrit(1, 1, 1, t) /\ UNCHANGED aux
    \/ RejectSent(1) /\ UNCHANGED aux
    \/ ReplyDone(1) /\ UNCHANGED aux
    \/ ReplyFail(1) /\ UNCHANGED aux
    \/ \E t \in Times : AfterRun(1, t) /\ UNCHANGED <<hist, kept>>
    \/ \E t \in Times : RefreshCrit(1, t) /\ UNCHANGED aux
    \/ DashNoPanel(1)
    \/ \E t \in Times : DashFetched(1, t)
    \/ EditDone(1)
    \/ EditFail(1)
    \/ RefreshSave(1)

SpecPanel == InitPanel /\ [][NextPanel]_vars

\* ------------------------------------------- the after() tasks of a member
\* A guild with a log channel: the members press the buttons while earlier
\* presses still await their confirmation or run their after() task, and
\* the log channel takes up to MaxOrderLog lines.
InitOrder ==
    /\ users = <<>>
    /\ user_keys = <<>>
    /\ week_start = week_start_kst(DateOf(FirstTime))
    /\ last_weekly_reset_log_id = None
    /\ log_channel_id = 1
    /\ lock = None
    /\ lockq = <<>>
    /\ reqs = [r \in Slots |-> Idle]
    /\ log = <<>>
    /\ budget = MaxOrderOps
    /\ hist = <<>>
    /\ last_settlement_week_start = None
    /\ dashboard_hash = NoHash
    /\ panel = NoPanel
    /\ file = Snapshot

NextOrder ==
    \/ \E r \in Slots, t \in Times : CheckinCrit(r, 1, 1, t) /\ Watched
    \/ \E r \in Slots, t \in Times : ToggleCrit(r, 1, 1, t) /\ Watched
    \/ \E r \in Slots, t \in Times : CheckoutCrit(r, 1, 1, t) /\ Watched
    \/ \E r \in Slots : RejectSent(r) /\ UNCHANGED aux
    \/ \E r \in Slots : ReplyDone(r) /\ UNCHANGED aux
    \/ \E r \in Slots : ReplyFail(r) /\ UNCHANGED aux
    \/ \E r \in Slots : AfterBlock(r) /\ UNCHANGED aux
    \/ \E r \in Slots, t \in Times : AfterRun(r, t) /\ UNCHANGED <<hist, kept>>
    \/ \E r \in Slots : LogSentUpTo(r, MaxOrderLog) /\ UNCHANGED aux
    \/ \E r \in Slots : LogFail(r) /\ UNCHANGED aux

SpecOrder == InitOrder /\ [][NextOrder]_vars

\* --------------------------------------- replay over the log of live use
\* A guild with a log channel from the start: member 1 presses the buttons,
\* an admin runs the settlement and the replay command, one handler at a
\* time; the log channel takes up to MaxLiveLog lines.  The observer notes
\* the critical sections of the buttons (as Watch does) and, when the replay
\* command starts, the members' records and the checkpoint it finds.
ReplayStarts(r) == reqs[r].pc = "idle" /\ reqs'[r].kind = "replay"

LiveNote ==
    [kind |-> "replay", member |-> 0, now |-> None, outcome |-> "live",
     action |-> "none", studied_sec |-> None, users |-> users,
     week |-> week_start, checkpoint |-> last_weekly_reset_log_id]

WatchLive ==
    /\ hist' = IF \E r \in Slots : Noted(r)
               THEN Append(hist, Note(reqs'[CHOOSE r \in Slots : Noted(r)]))
               ELSE IF \E r \in Slots : ReplayStarts(r)
               THEN Append(hist, LiveNote)
               ELSE hist
    /\ UNCHANGED <<last_settlement_week_start, kept>>

InitLive ==
    /\ users = <<>>
    /\ user_keys = <<>>
    /\ week_start = week_start_kst(DateOf(FirstTime))
    /\ last_weekly_reset_log_id = None
    /\ log_channel_id = 1
    /\ lock = None
    /\ lockq = <<>>
    /\ reqs = [r \in Slots |-> Idle]
    /\ log = <<>>
    /\ budget = MaxLiveOps
    /\ hist = <<>>
    /\ last_settlement_week_start = None
    /\ dashboard_hash = NoHash
    /\ panel = NoPanel
    /\ file = Snapshot

NextLive ==
    \/ \E t \in Times : NotBefore(t) /\ CheckinCrit(1, 1, 1, t) /\ WatchLive
    \/ \E t \in Times : NotBefore(t) /\ ToggleCrit(1, 1, 1, t) /\ WatchLive
    \/ \E t \in Times : NotBefore(t) /\ CheckoutCrit(1, 1, 1, t) /\ WatchLive
    \/ RejectSent(1) /\ WatchLive
    \/ ReplyDone(1) /\ WatchLive
    \/ ReplyFail(1) /\ WatchLive
    \/ \E t \in Times : NotBefore(t) /\ AfterRun(1, t) /\ UNCHANGED <<hist, kept>>
    \/ LogSentUpTo(1, MaxLiveLog) /\ WatchLive
    \/ LogFail(1) /\ WatchLive
    \/ \E t \in Times : NotBefore(t) /\ SettleCrit(1, t) /\ WatchLive
    \/ SettleFail(1) /\ WatchLive
    \/ \E t \in Times : NotBefore(t) /\ SettleBegin(1, t) /\ WatchLive
    \/ SettleRank(1) /\ WatchLive
    \/ \E t \in Times : NotBefore(t) /\ SettleZero(1, t) /\ WatchLive
    \/ SettleLogSentUpTo(1, MaxLiveLog) /\ WatchLive
    \/ SettleLogFail(1) /\ WatchLive
    \/ \E t \in Times : NotBefore(t) /\ ReplayCrit(1, t) /\ WatchLive
    \/ \E t \in Times : NotBefore(t) /\ ReplayFetch(1, NamesNow, t) /\ WatchLive

SpecLive == InitLive /\ [][NextLive]_vars

\* ==================================================================
\* The properties
\* ==================================================================
TriggerKinds == {"checkin", "toggle_break", "checkout"}

\* Slot r leaves the critical section of a button in this step.
Accepting(r) == reqs[r].outcome = "none" /\ reqs'[r].outcome = "accepted"
Rejecting(r) == reqs[r].outcome = "none" /\ reqs'[r].outcome = "rejected"
Informing(r) == reqs[r].outcome = "none" /\ reqs'[r].outcome = "info"

\* C1 (as the specification states it): the event of a transition is in
\* the log before the state reflects it, so a member whose record shows a
\* session has the check-in line of that session in the log.
C1_LogBeforeState ==
    \A m \in DOMAIN users :
        users[m].status \in {"work", "break"} =>
            \E i \in DOMAIN log :
                /\ log[i].action = "checkin"
                /\ log[i].uid = m
                /\ log[i].ts = users[m].start_time

\* C3: in every reachable state every member has one of the three statuses,
\* break_start is set only on break, start_time is set in a session (work or
\* break) and None when off.
C3_SessionInvariant ==
    \A m \in DOMAIN users :
        LET u == users[m]
        IN  /\ u.status \in {"off", "work", "break"}
            /\ u.break_start # None => u.status = "break"
            /\ u.status \in {"work", "break"} => u.start_time # None
            /\ u.status = "off" => u.start_time = None

\* C3's case: a replay has rebuilt the session of a member who is at work.
C3_Witness ==
    \E r \in Slots, m \in DOMAIN users :
        /\ reqs[r].kind = "replay"
        /\ reqs[r].pc = "after"
        /\ users[m].status = "work"
        /\ users[m].start_time # None

\* The outcome the state machine defines for trigger k in status s: how the
\* press ends and the status it leaves.
Defined(k, s) ==
    CASE k = "checkin" ->
             IF s = "off" THEN <<"accepted", "work">> ELSE <<"rejected", s>>
      [] k = "toggle_break" ->
             IF s = "off" THEN <<"rejected", s>>
             ELSE IF s = "work" THEN <<"accepted", "break">>
             ELSE <<"accepted", "work">>
      [] k = "checkout" ->
             IF s = "off" THEN <<"rejected", s>> ELSE <<"accepted", "off">>

StatusOf(m) == IF m \in DOMAIN users THEN users[m].status ELSE "off"

\* C4 (as the specification states it): no trigger ends without a transition
\* or a rejection, so a callback that returns has one of the two outcomes.
C4_NoTriggerSwallowed ==
    \A r \in Slots :
        reqs[r].kind \in TriggerKinds /\ reqs[r].pc = "return" =>
            reqs[r].outcome \in {"accepted", "rejected"}

\* C4 (amended): a trigger whose safe_defer returned True ends its critical
\* section with the outcome the state machine defines for the member's
\* status: the transition is applied and confirmed, or the rejection is
\* sent; a trigger whose safe_defer returned False changes no state.
C4_DeferredTriggerAnswered ==
    [][\A r \in Slots :
          /\ (reqs[r].outcome = "none" /\ reqs'[r].kind \in TriggerKinds
                 /\ reqs'[r].pc \notin {"idle", "wait", "return"}) =>
                LET m == reqs'[r].member
                    e == Defined(reqs'[r].kind, StatusOf(m))
                IN  /\ reqs'[r].outcome = e[1]
                    /\ users'[m].status = e[2]
                    /\ reqs'[r].pc = IF e[1] = "accepted" THEN "reply"
                                     ELSE "rej_send"
          /\ (reqs[r].pc = "idle" /\ reqs'[r].pc = "return") => UNCHANGED data
      ]_vars

\* C4's case: a check-in pressed during a session has been rejected and the
\* rejection is being sent.
C4_Witness ==
    \E r \in Slots :
        /\ reqs[r].kind = "checkin"
        /\ reqs[r].outcome = "rejected"
        /\ reqs[r].pc = "rej_send"
        /\ users[reqs[r].member].status = "break"

\* C7: the weekly total and the break total of every member are never
\* negative, and neither are the studied seconds of a check-out: the ones a
\* check-out has computed, the ones in the log, and the ones a check-out would
\* compute from any reachable record at any instant of the clock.
C7_NonNegative ==
    /\ \A m \in DOMAIN users :
           /\ users[m].weekly_total_sec >= 0
           /\ users[m].total_break_today >= 0
           /\ \A t \in Times : checkout_studied(users[m], t) >= 0
    /\ \A r \in Slots :
           reqs[r].log_text.action = "checkout" => reqs[r].log_text.studied_sec >= 0
    /\ \A i \in DOMAIN log :
           log[i].action = "checkout" => log[i].studied_sec >= 0

\* C7's case: a negative adjustment has been applied to a member whose total
\* was smaller than the deduction, and a session exists whose start lies
\* after an instant the clock can show.
C7_Witness ==
    /\ \E r \in Slots :
           /\ reqs[r].kind = "adjust"
           /\ reqs[r].delta < 0
           /\ reqs[r].pc = "reply"
           /\ users[reqs[r].member].weekly_total_sec = 0
    /\ \E m \in DOMAIN users, t \in Times :
           users[m].status = "break" /\ t < users[m].start_time

\* The state a replay leaves behind, and the display names it has stored.
GuildAfter == [users |-> users', user_keys |-> user_keys',
               week_start |-> week_start',
               last_weekly_reset_log_id |-> last_weekly_reset_log_id']

NamesAfter == [m \in Members |-> IF m \in DOMAIN users' THEN users'[m].name ELSE 1]

\* What one more run of replay, undisturbed and at instant t, makes of the
\* state the step leaves: the reset section, then the messages after the
\* checkpoint.
ReplayedAgain(t) ==
    LET g == reset_sessions(ensure_guild(GuildAfter, t))
        first == IF g.last_weekly_reset_log_id = None THEN 1
                 ELSE g.last_weekly_reset_log_id + 1
    IN  replay_events(g, log', first, Len(log'), NamesAfter, t)

\* Slot r ends a run of replay that has read the whole log.
ReplayEnds(r) ==
    /\ reqs[r].kind = "replay"
    /\ \/ reqs[r].pc = "rp_fetch"
       \/ reqs[r].pc = "rp_wait" /\ reqs[r].end = Len(log)
    /\ reqs'[r].pc = "after"

\* C10 (as the specification states it): when a run of replay ends, a second
\* run over the same log, in the same week, leaves the weekly total, the
\* status and the streak of every member as the first run left them.
C10_ReplayIdempotent ==
    [][\A r \in Slots, t \in Times :
          (ReplayEnds(r) /\ week_start_kst(DateOf(t)) = week_start') =>
              \A m \in DOMAIN users' :
                  LET v == ReplayedAgain(t).users[m]
                  IN  /\ v.weekly_total_sec = users'[m].weekly_total_sec
                      /\ v.status = users'[m].status
                      /\ v.streak = users'[m].streak
      ]_vars

\* What the first lines of a critical section may do for the member and the
\* display name of slot r: add the member's record, refresh the member's
\* name, and on a week change move week_start and zero the weekly totals.
\* Nothing else of the guild changes and the log gets no line.
Housekeeping(r) ==
    LET m == reqs'[r].member
        rolled == week_start # None /\ week_start' # week_start
    IN  /\ DOMAIN users' = DOMAIN users \cup {m}
        /\ \A x \in DOMAIN users :
               users'[x] = [users[x] EXCEPT
                               !.name = IF x = m THEN reqs'[r].name ELSE @,
                               !.weekly_total_sec = IF rolled THEN 0 ELSE @]
        /\ m \notin DOMAIN users => users'[m] = NewUser(reqs'[r].name)
        /\ user_keys' = IF m \in DOMAIN users THEN user_keys
                        ELSE Append(user_keys, m)
        /\ week_start' # None
        /\ UNCHANGED <<last_weekly_reset_log_id, log_channel_id, log>>

\* C5 (as the specification states it): a rejected transition changes
\* nothing of the guild's state and appends nothing to the log.
C5_RejectionChangesNothing ==
    [][\A r \in Slots : Rejecting(r) => UNCHANGED <<data, log_channel_id, log>>]_vars

\* C5 (amended): a rejected transition changes no session, streak or date
\* and appends nothing to the log; it does what every critical section
\* starts with.
C5_RejectionFrame ==
    [][\A r \in Slots : Rejecting(r) => Housekeeping(r)]_vars

\* C5's case: a check-out pressed outside a session has been rejected, for a
\* member who has a streak, in another week than that of the member's last
\* check-out.
C5_Witness ==
    \E r \in Slots :
        /\ reqs[r].kind = "checkout"
        /\ reqs[r].outcome = "rejected"
        /\ users[reqs[r].member].streak > 0
        /\ week_start # week_start_kst(users[reqs[r].member].last_work_date)

\* C8: an accepted check-out at `now` sets last_work_date to the date of
\* `now`, and the streak to one more than it was if the last working day was
\* the day before, to what it was if it was the same day, and to 1 otherwise.
C8_StreakRule ==
    [][\A r \in Slots :
          (Accepting(r) /\ reqs'[r].kind = "checkout") =>
              LET m == reqs'[r].member
                  today == DateOf(reqs'[r].now)
                  last == users[m].last_work_date
              IN  /\ users'[m].last_work_date = today
                  /\ users'[m].streak =
                         IF last # None /\ last = today - 1 THEN users[m].streak + 1
                         ELSE IF last # None /\ last = today THEN users[m].streak
                         ELSE 1
      ]_vars

\* C8's case: a member has checked out on two days in a row, and the second
\* check-out has made the streak 2.
C8_Witness ==
    \E r \in Slots :
        /\ reqs[r].kind = "checkout"
        /\ reqs[r].outcome = "accepted"
        /\ reqs[r].log_text.streak = 2

\* C9 (as the specification states it): myinfo changes nothing of the
\* guild's state and appends nothing to the log.
C9_MyinfoPureRead ==
    [][\A r \in Slots : Informing(r) => UNCHANGED <<data, log_channel_id, log>>]_vars

\* C9 (amended): myinfo changes no session, streak or date and appends
\* nothing to the log; it does what every critical section starts with.
C9_MyinfoFrame ==
    [][\A r \in Slots : Informing(r) => Housekeeping(r)]_vars

\* C9's case: myinfo has been pressed by a member who is in a session, under
\* another display name than the one stored before.
C9_Witness ==
    \E r \in Slots :
        /\ reqs[r].kind = "myinfo"
        /\ reqs[r].pc = "info_send"
        /\ users[reqs[r].member].status = "break"
        /\ reqs[r].name = 2

\* C2: of two check-outs of one member that wait for the lock together, the
\* first to get it is accepted and adds its studied seconds to the weekly
\* total, and the second is rejected; the total never holds both sessions'
\* seconds (it is the accepted check-out's, or 0 once the rejected one has
\* found the week changed).
C2_OneCheckoutWins ==
    /\ Len(hist) <= 2
    /\ hist = <<>> => users[1].weekly_total_sec = 0
    /\ Len(hist) >= 1 =>
           /\ hist[1].outcome = "accepted"
           /\ users[1].status = "off"
           /\ users[1].weekly_total_sec \in
                  IF Len(hist) = 1 THEN {hist[1].studied_sec}
                  ELSE {hist[1].studied_sec, 0}
    /\ Len(hist) = 2 => hist[2].outcome = "rejected"

\* C2's case: both check-outs have run, and the accepted one counted a
\* session of positive length.
C2_Witness ==
    /\ Len(hist) = 2
    /\ hist[1].studied_sec > 0
    /\ users[1].weekly_total_sec = hist[1].studied_sec

\* The instants of the transitions noted since the last accepted check-in,
\* oldest first.
RECURSIVE SessionNotes(_)
SessionNotes(h) ==
    IF h = <<>> \/ h[Len(h)].action = "checkin" THEN <<>>
    ELSE LET e == h[Len(h)]
             before == SessionNotes(SubSeq(h, 1, Len(h) - 1))
         IN  IF e.action \in {"break_start", "break_end"}
             THEN Append(before, e.now)
             ELSE before

\* The instant of the last accepted check-in.
RECURSIVE SessionStart(_)
SessionStart(h) ==
    IF h = <<>> THEN None
    ELSE IF h[Len(h)].action = "checkin" THEN h[Len(h)].now
    ELSE SessionStart(SubSeq(h, 1, Len(h) - 1))

\* The breaks of a session, from the instants bs of its break starts and
\* break ends in turn; a break still open ends at t.  In ticks, and in
\* seconds with every break cut to whole seconds.
RECURSIVE BreakTicks(_, _)
BreakTicks(bs, t) ==
    IF bs = <<>> THEN 0
    ELSE IF Len(bs) = 1 THEN t - bs[1]
    ELSE (bs[2] - bs[1]) + BreakTicks(SubSeq(bs, 3, Len(bs)), t)

RECURSIVE BreakSeconds(_, _)
BreakSeconds(bs, t) ==
    IF bs = <<>> THEN 0
    ELSE IF Len(bs) = 1 THEN IntSeconds(t - bs[1])
    ELSE IntSeconds(bs[2] - bs[1]) + BreakSeconds(SubSeq(bs, 3, Len(bs)), t)

\* C6 (as the specification states it): an accepted check-out at t of a
\* session begun at t0 adds max(0, (t - t0) - total break time) to the weekly
\* total, in whole seconds, and leaves the member off with the session
\* cleared.
C6_CheckoutAddsElapsedMinusBreaks ==
    [][\A r \in Slots :
          (Accepting(r) /\ reqs'[r].kind = "checkout") =>
              LET t == reqs'[r].now
                  t0 == SessionStart(hist)
                  ticks == (t - t0) - BreakTicks(SessionNotes(hist), t)
              IN  /\ users'[1].weekly_total_sec - users[1].weekly_total_sec
                         = IntSeconds(Max(0, ticks))
                  /\ users'[1].status = "off"
                  /\ users'[1].start_time = None
                  /\ users'[1].break_start = None
                  /\ users'[1].total_break_today = 0
      ]_vars

\* C6 (amended): the check-out adds max(0, s - b) where s is t - t0 cut to
\* whole seconds and b is the sum of the breaks, each cut to whole seconds on
\* its own; it leaves the member off with the session cleared.
C6_CheckoutAddsWholeSeconds ==
    [][\A r \in Slots :
          (Accepting(r) /\ reqs'[r].kind = "checkout") =>
              LET t == reqs'[r].now
                  t0 == SessionStart(hist)
                  b == BreakSeconds(SessionNotes(hist), t)
              IN  /\ users'[1].weekly_total_sec - users[1].weekly_total_sec
                         = Max(0, IntSeconds(t - t0) - b)
                  /\ reqs'[r].log_text.studied_sec = Max(0, IntSeconds(t - t0) - b)
                  /\ users'[1].status = "off"
                  /\ users'[1].start_time = None
                  /\ users'[1].break_start = None
                  /\ users'[1].total_break_today = 0
      ]_vars

\* C6's case: a session with a completed break has been checked out with
\* studied seconds to count.
C6_Witness ==
    \E i \in DOMAIN hist, j \in DOMAIN hist :
        /\ j < i
        /\ hist[j].action = "break_end"
        /\ hist[i].action = "checkout"
        /\ hist[i].studied_sec > 0
        /\ \A k \in j..i : hist[k].action # "checkin"

\* ------------------------------------------------------------------
\* The replay runs the observer has noted, oldest first, and whether the
\* guild's week moved on during one of them.
ReplayRuns == SelectSeq(hist, LAMBDA n : n.what # "week")
RolledOver == \E i \in 1..Len(hist) : hist[i].what = "week"

ReplayApplies(r) ==
    /\ reqs[r].pc = "rp_fetch"
    /\ reqs[r].idx \in 1..Len(log)
    /\ reqs'[r].pc = "rp_fetch"
    /\ reqs'[r].idx = reqs[r].idx + 1

ReplayedLine(r) == log[reqs[r].idx]

\* The weekly total of member m that the week check of this step leaves.
WeeklyBefore(m) ==
    IF week_start' # week_start \/ m \notin DOMAIN users THEN 0
    ELSE users[m].weekly_total_sec

IsWeeklyReset(evt) ==
    ~Skipped(evt) /\ evt.uid = 0 /\ evt.action = "weekly_reset"

\* C13 as stated: once the log holds a weekly_reset line, replay reaches no
\* message that lies before the latest weekly_reset line.
C13_CheckpointBounded ==
    [][\A r \in Slots :
          ReplayApplies(r)
          => ~\E j \in (reqs[r].idx + 1)..Len(log) : IsWeeklyReset(log[j])
      ]_vars

\* C14 as stated: when replay applies a weekly_reset line, every member's
\* weekly total is 0 afterwards and the line's position is the checkpoint.
C14_ReplayResetZeroes ==
    [][\A r \in Slots :
          (ReplayApplies(r) /\ IsWeeklyReset(ReplayedLine(r)))
          => /\ \A m \in DOMAIN users' : users'[m].weekly_total_sec = 0
             /\ last_weekly_reset_log_id' = reqs[r].idx
      ]_vars

\* A message that is no well-formed event: no [STUDYLOG] line, no action, no
\* timestamp, or a uid that names neither a member nor the system's
\* weekly_reset.
Malformed(evt) == Skipped(evt) \/ replay_raises(evt)

\* C15 as stated: replay passes over a malformed message, changing nothing,
\* and goes on with the next one; a replay from the empty state that meets no
\* well-formed message completes with no member record changed from the
\* default.
C15_MalformedSkipped ==
    [][\A r \in Slots :
          /\ (reqs[r].pc = "rp_fetch" /\ reqs[r].idx \in 1..Len(log)
                  /\ Malformed(ReplayedLine(r)) /\ reqs'[r] # reqs[r])
              => /\ ReplayApplies(r)
                 /\ UNCHANGED <<users, last_weekly_reset_log_id>>
          /\ (ReplayEnded(r) /\ \A i \in 1..Len(log) : Malformed(log[i]))
              => /\ reqs'[r].pc = "after"
                 /\ \A m \in DOMAIN users' : users'[m] = NewUser(1)
      ]_vars

\* ------------------------------------------------------------------
\* C16 as stated: when an adjust_time command that patched a member's weekly
\* total (here: added time to it) ends, the log holds a time_adjust line
\* naming that member (a log channel being configured).
C16_AdjustLogged ==
    [][\A r \in Slots :
          (/\ reqs[r].kind = "adjust"
           /\ reqs[r].outcome = "accepted"
           /\ reqs[r].delta > 0
           /\ reqs'[r].pc = "idle"
           /\ log_channel_id # None)
          => \E i \in 1..Len(log') :
                /\ log'[i].action = "time_adjust"
                /\ log'[i].uid = reqs[r].member
      ]_vars

\* The settlement r zeroes, in this step, a weekly total that was positive.
SettlementZeroes(r) ==
    /\ reqs[r].pc = "st_rank"
    /\ reqs'[r].pc # "st_rank"
    /\ \E m \in DOMAIN users :
          users[m].weekly_total_sec > 0 /\ users'[m].weekly_total_sec = 0

\* C17 as stated: a settlement run zeroes the weekly totals in memory only
\* once its weekly_reset line is in the log; while the line is not appended
\* the totals keep their values.
C17_ResetAfterAppend ==
    [][\A r \in Slots :
          SettlementZeroes(r)
          => \E i \in 1..Len(log') :
                IsWeeklyReset(log'[i]) /\ log'[i] = reqs'[r].log_text
      ]_vars

\* ------------------------------------------------------------------
\* The ranking the settlement has just built, and what it was built from.
Ranking == hist[Len(hist)]
RankingBuilt == \E r \in Slots : reqs[r].pc = "st_rank"
Positive == {m \in DOMAIN users : users[m].weekly_total_sec > 0}
Listed == {Ranking.lines[i].member : i \in 1..Len(Ranking.lines)}
KeyPos(m) == CHOOSE i \in 1..Len(user_keys) : user_keys[i] = m

\* Member a is ranked before member b: a greater total, or the same total
\* and an earlier place in the dict.
RankedBefore(a, b) ==
    \/ users[a].weekly_total_sec > users[b].weekly_total_sec
    \/ /\ users[a].weekly_total_sec = users[b].weekly_total_sec
       /\ KeyPos(a) < KeyPos(b)

\* C18: the ranking is the empty-ranking message exactly when no member has
\* a positive weekly total; otherwise it lists only members with a positive
\* total, all of them up to RankLimit, the greatest totals first and equal
\* totals in insertion order, numbered 1..N.
C18_RankingOrder ==
    RankingBuilt =>
        LET L == Ranking.lines
            N == IF Cardinality(Positive) > RankLimit THEN RankLimit
                 ELSE Cardinality(Positive)
        IN  /\ Ranking.empty <=> Positive = {}
            /\ Len(L) = N
            /\ Listed \subseteq Positive
            /\ \A i \in 1..Len(L) :
                   /\ L[i].rank = i
                   /\ L[i].sec = users[L[i].member].weekly_total_sec
            /\ \A i \in 1..Len(L), j \in 1..Len(L) :
                   i < j => RankedBefore(L[i].member, L[j].member)
            /\ \A m \in Positive \ Listed, i \in 1..Len(L) :
                   RankedBefore(L[i].member, m)

\* A ranking cut at RankLimit lines, with two equal totals next to each
\* other and the dict in descending order of ids.
C18_Witness ==
    /\ RankingBuilt
    /\ Cardinality(Positive) > RankLimit
    /\ Len(Ranking.lines) = RankLimit
    /\ Len(user_keys) > 1 /\ user_keys[1] > user_keys[2]
    /\ Ranking.lines[1].sec > Ranking.lines[2].sec
    /\ Ranking.lines[2].sec = Ranking.lines[3].sec

\* sec / top * 20 rounded to the nearest integer.
Rounded(sec, top) == (2 * sec * BarWidth + top) \div (2 * top)

\* C19 as stated: every line's bar is max(1, round(s / top * 20)) long, the
\* top member's bar BarWidth.
C19_BarRounded ==
    RankingBuilt =>
        \A i \in 1..Len(Ranking.lines) :
            /\ Ranking.lines[i].bar_len
                   = Max(1, Rounded(Ranking.lines[i].sec, Ranking.lines[1].sec))
            /\ Ranking.lines[1].bar_len = BarWidth

\* C19, amended: every line's bar is max(1, floor(s / top * 20)) long, the
\* top member's bar BarWidth.
C19_BarTruncated ==
    RankingBuilt =>
        \A i \in 1..Len(Ranking.lines) :
            /\ Ranking.lines[i].bar_len
                   = Max(1, (Ranking.lines[i].sec * BarWidth)
                                \div Ranking.lines[1].sec)
            /\ Ranking.lines[1].bar_len = BarWidth

\* A ranking with a line whose quotient rounds up but is cut down: a third of
\* the top total gives a bar of 6, not 7.
C19_Witness ==
    /\ RankingBuilt
    /\ \E i \in 1..Len(Ranking.lines) :
          /\ 3 * Ranking.lines[i].sec = Ranking.lines[1].sec
          /\ Ranking.lines[i].bar_len = 6
          /\ Rounded(Ranking.lines[i].sec, Ranking.lines[1].sec) = 7

\* ------------------------------------------------------------------
\* No two scheduled runs were begun in the same week.
NoAutoRunTwice ==
    \A i \in 1..Len(hist), j \in 1..Len(hist) :
        (/\ i < j
         /\ hist[i].what = "begun" /\ hist[i].kind = "auto"
         /\ hist[j].what = "begun" /\ hist[j].kind = "auto")
        => hist[i].week # hist[j].week

\* Every week the marker was set to is a week in which an earlier
\* settlement run was begun or zeroed the totals.
MarkedAfterSettled ==
    \A i \in 1..Len(hist) :
        hist[i].what = "marked"
        => \E j \in 1..(i - 1) :
              /\ hist[j].what \in {"begun", "zeroed"}
              /\ hist[j].week = hist[i].week

\* C20 as stated: the scheduled settlement never runs twice in one week
\* (it tests the marker first and skips the week the marker names), and
\* the marker is set to a week only after a settlement of that week.
C20_MarkerGuard == NoAutoRunTwice /\ MarkedAfterSettled

\* ------------------------------------------------------------------
\* The process has restarted in this step.
Restarted == budget' = budget - 1 /\ \A r \in Slots : reqs'[r].pc = "idle"

\* The log folded from the empty state, in append order, at instant t.
FoldedLog(t) ==
    LET empty == [users |-> <<>>, user_keys |-> <<>>, week_start |-> None,
                  last_weekly_reset_log_id |-> None]
    IN  replay_events(ensure_guild(empty, t), log, 1, Len(log),
                      [m \in Members |-> 1], t)

\* The session and the weekly total of member m in guild g (a member the
\* guild does not know has the default record).
SessionIn(g, m) ==
    LET u == IF m \in DOMAIN g.users THEN g.users[m] ELSE NewUser(1)
    IN  <<u.status, u.start_time, u.break_start, u.weekly_total_sec>>

\* C21 as stated: after a restart the members' sessions, their weekly totals
\* and the reset checkpoint are those of the log folded from the empty state.
C21_RestartReplaysLog ==
    [][Restarted =>
          \E t \in Times :
              /\ \A m \in Members :
                    SessionIn(GuildAfter, m) = SessionIn(FoldedLog(t), m)
              /\ last_weekly_reset_log_id'
                    = FoldedLog(t).last_weekly_reset_log_id
      ]_vars

\* ------------------------------------------------------------------
\* The sanitized value of a text: every newline a space, every semicolon a
\* comma, no white space at either end.
RECURSIVE Trimmed(_)
Trimmed(s) ==
    IF s = <<>> THEN s
    ELSE IF Head(s) = " " THEN Trimmed(Tail(s))
    ELSE IF s[Len(s)] = " " THEN Trimmed(SubSeq(s, 1, Len(s) - 1))
    ELSE s

Sanitized(v) ==
    Trimmed([i \in 1..Len(v) |-> IF v[i] = "\n" THEN " "
                                 ELSE IF v[i] = ";" THEN "," ELSE v[i]])

\* C22: the line made of an event parses to an event whose every field is
\* the sanitized text of the field that was given.
C22_CodecRoundTrip ==
    Len(hist) = 2 =>
        /\ hist[2] # NoEvent
        /\ DOMAIN hist[2] = {<<"action">>, <<"uid">>, <<"name">>, <<"ts">>, <<"note">>}
        /\ hist[2][<<"action">>] = hist[1].action
        /\ hist[2][<<"uid">>] = hist[1].uid
        /\ hist[2][<<"name">>] = Sanitized(hist[1].name)
        /\ hist[2][<<"ts">>] = hist[1].ts
        /\ hist[2][<<"note">>] = Sanitized(hist[1].note)

\* A parsed line whose name held a semicolon and a newline between white
\* space, and whose extra field held a semicolon.
C22_Witness ==
    /\ Len(hist) = 2
    /\ hist[1].name = <<" ", ";", "\n">>
    /\ hist[1].note = <<"a", ";">>
    /\ hist[2][<<"name">>] = <<",">>

\* ------------------------------------------------------------------
\* C23 as stated: Community State (the members' records, the reset
\* checkpoint) is written only inside a critical section of store.lock, so
\* never in a step taken while another coroutine holds the lock.
C23_StateUnderLock ==
    [][(users' # users \/ last_weekly_reset_log_id' # last_weekly_reset_log_id)
          => lock = None
      ]_vars

\* ------------------------------------------------------------------
\* Slot r waits at an `async with store.lock`.
Waiting(r) == \E i \in 1..Len(lockq) : lockq[i] = r

\* C24: no coroutine waits for store.lock while it holds it, and every
\* coroutine that waits for the lock acquires it in the end.
C24_NoRelockNoDeadlock ==
    /\ [](\A r \in Slots : lock = r => ~Waiting(r))
    /\ \A r \in Slots : Waiting(r) ~> ~Waiting(r)

\* A coroutine waits for the lock while another one holds it across a send.
C24_Witness ==
    \E r \in Slots, q \in Slots :
        /\ r # q
        /\ Waiting(r)
        /\ reqs[r].pc = "wait"
        /\ lock = q
        /\ reqs[q].pc = "rej_send"

\* ------------------------------------------------------------------
\* C25 as stated: a coroutine that holds store.lock while it awaits an
\* external call awaits the append of a line to the log channel, never a
\* reply to the requester or a panel call.
C25_LockOnlyAroundAppend ==
    \A r \in Slots : lock = r => reqs[r].pc \in {"log_send", "st_log"}

\* ------------------------------------------------------------------
\* C26 as stated: a periodic refresh leaves the panel alone only when the
\* panel shows the summary the refresh has just built; a panel left stale by
\* a failed edit is edited again.
C26_RefreshRepairsPanel ==
    \A r \in Slots :
        (reqs[r].kind = "refresh" /\ reqs[r].outcome = "same")
        => panel.shown = reqs[r].desc

\* ------------------------------------------------------------------
\* C30 as stated: with a log channel configured, a button handler whose
\* critical section accepted the press ends only after send_log_text has
\* tried to send its line, also when the confirmation could not be sent.
C30_AcceptedIsLogged ==
    [][\A r \in Slots :
          (/\ reqs[r].kind \in ButtonKinds
           /\ reqs[r].outcome = "accepted"
           /\ log_channel_id # None
           /\ reqs'[r].pc = "idle")
          => reqs[r].pc = "log_send"
      ]_vars

\* ------------------------------------------------------------------
\* C27 as stated: a trigger whose acknowledgment fails is applied all the
\* same, so a check-in pressed while every member is off changes the
\* members' records also when safe_defer returns False.
C27_AckFailureCommits ==
    [][\A r \in Slots :
          (/\ reqs[r].pc = "idle"
           /\ reqs'[r].pc = "return"
           /\ reqs'[r].kind = "checkin"
           /\ \A m \in Members : StatusOf(m) = "off")
          => users' # users
      ]_vars

\* C27 (amended): a trigger whose safe_defer returned False returns before
\* its critical section, so neither that step nor the return changes the
\* state or the log; a trigger whose confirmation could not be sent had its
\* transition applied, and the step that ends its handler changes neither
\* the state nor the log.
C27_AckFailureKeepsState ==
    [][\A r \in Slots :
          /\ (reqs[r].pc = "idle" /\ reqs'[r].pc = "return")
                => (reqs'[r].outcome = "none" /\ UNCHANGED <<data, log>>)
          /\ (reqs[r].pc = "return" /\ reqs'[r].pc = "idle")
                => (reqs[r].outcome = "none" /\ UNCHANGED <<data, log>>)
          /\ (reqs[r].kind \in TriggerKinds /\ reqs[r].pc = "reply"
                 /\ reqs'[r].pc = "idle")
                => (reqs[r].outcome = "accepted" /\ UNCHANGED <<data, log>>)
      ]_vars

\* C27's case: a check-in whose safe_defer returned False is returning while
\* every member is off.
C27_Witness ==
    \E r \in Slots :
        /\ reqs[r].kind = "checkin"
        /\ reqs[r].pc = "return"
        /\ \A m \in Members : StatusOf(m) = "off"

\* ------------------------------------------------------------------
\* A history in which no message repeats the one before it.
RECURSIVE Deduplicated(_)
Deduplicated(s) ==
    IF Len(s) <= 1 THEN s
    ELSE LET d == Deduplicated(SubSeq(s, 1, Len(s) - 1))
         IN  IF s[Len(s)] = s[Len(s) - 1] THEN d ELSE Append(d, s[Len(s)])

\* The member records a replay of the history msgs builds from the empty
\* state at instant t.
ReplayedUsers(msgs, t) ==
    LET empty == [users |-> <<>>, user_keys |-> <<>>, week_start |-> None,
                  last_weekly_reset_log_id |-> None]
    IN  replay_events(ensure_guild(empty, t), msgs, 1, Len(msgs),
                      NamesNow, t).users

\* C28 as stated: a replay run from the empty state that reads the whole
\* log, the week not changing under way, leaves the member records that a
\* replay of the log without its repeated entries builds.
C28_DuplicatesAreNoOps ==
    \A i \in 1..Len(hist) :
        (hist[i].what = "done" /\ ~RolledOver) =>
            \E t \in Times : hist[i].users = ReplayedUsers(Deduplicated(log), t)

\* ------------------------------------------------------------------
\* Sequence a is what is left of sequence b when some of b's elements are
\* taken out: the elements of a are in b, in the same order.
RECURSIVE IsSubsequence(_, _)
IsSubsequence(a, b) ==
    IF a = <<>> THEN TRUE
    ELSE IF b = <<>> THEN FALSE
    ELSE IF Head(a) = Head(b) THEN IsSubsequence(Tail(a), Tail(b))
    ELSE IsSubsequence(a, Tail(b))

\* The events of member m in the log channel, oldest first.
LoggedOf(m) ==
    LET own == SelectSeq(log, LAMBDA e : e.uid = m)
    IN  [i \in 1..Len(own) |-> <<own[i].action, own[i].ts>>]

\* The events of the transitions of member m, in the order in which the
\* critical sections applied them.
AppliedOf(m) ==
    LET own == SelectSeq(hist, LAMBDA n : n.member = m /\ n.outcome = "accepted")
    IN  [i \in 1..Len(own) |-> <<own[i].action, dt_to_iso(own[i].now)>>]

\* C29 as stated: the events of a member are in the log in the order in
\* which the member's transitions were applied, whatever the order in which
\* the confirmations return and the after() tasks run.
C29_LogInTransitionOrder ==
    \A m \in Members : IsSubsequence(LoggedOf(m), AppliedOf(m))

\* ------------------------------------------------------------------
\* The seconds of member m in the ranking the settlement run of slot r has
\* published: those of the member's line, 0 for a member without a line.
PublishedSec(r, m) ==
    LET own == SelectSeq(hist, LAMBDA n : n.slot = r)
        lines == own[Len(own)].ranking.lines
        mine == SelectSeq(lines, LAMBDA l : l.member = m)
    IN  IF mine = <<>> THEN 0 ELSE mine[1].sec

\* C31 as stated: a settlement zeroes no study time it has not published;
\* the weekly total a run zeroes is at most the total in the ranking of that
\* run, so the seconds a check-out credits during the run are in the ranking
\* or are credited after the zeroing and stay in the total.
C31_CreditNotLost ==
    [][\A r \in Slots :
          Zeroed(r) =>
              \A m \in DOMAIN users :
                  users[m].weekly_total_sec <= PublishedSec(r, m)
      ]_vars

\* ------------------------------------------------------------------
\* What the replay command found when it started: the last note of the
\* observer while the command runs.
Live == hist[Len(hist)]

\* The fields of a member's record that a replay is to rebuild.
RecordOf(u) ==
    <<u.status, u.start_time, u.break_start, u.total_break_today,
      u.weekly_total_sec>>

\* The lines of the members in the log channel, and the events of the
\* transitions the critical sections applied, both oldest first.
LoggedEvents ==
    LET own == SelectSeq(log, LAMBDA e : e.uid # 0)
    IN  [i \in 1..Len(own) |-> <<own[i].action, own[i].uid, own[i].ts>>]

AppliedEvents ==
    LET own == SelectSeq(hist, LAMBDA n : n.outcome = "accepted")
    IN  [i \in 1..Len(own) |->
            <<own[i].action, own[i].member, dt_to_iso(own[i].now)>>]

\* Every session that is open when the replay starts has its check-in line
\* after the checkpoint.
SessionsAfterReset ==
    \A m \in DOMAIN Live.users :
        Live.users[m].status # "off" =>
            \E i \in 1..Len(log) :
                /\ i > Live.checkpoint
                /\ log[i].action = "checkin"
                /\ log[i].uid = m
                /\ log[i].ts = Live.users[m].start_time

\* C32 as stated: when every transition applied was logged, in the order of
\* application, every open session has its check-in after the checkpoint
\* and the week does not change, a replay run that ends leaves every member
\* the status, start_time, break_start, total_break_today and
\* weekly_total_sec the member had when the run started.
C32_ReplayReconstructsLive ==
    [][\A r \in Slots :
          (/\ ReplayEnds(r)
           /\ LoggedEvents = AppliedEvents
           /\ SessionsAfterReset
           /\ week_start' = Live.week)
          => \A m \in DOMAIN Live.users :
                 RecordOf(users'[m]) = RecordOf(Live.users[m])
      ]_vars

\* ------------------------------------------------------------------
\* Member m's session was open when the settlement wrote the weekly_reset
\* line that is the checkpoint: the check-in line of the session precedes
\* the checkpoint and no check-out line of the member follows it.
SpansReset(m) ==
    LET c == Live.checkpoint
    IN  /\ c \in 1..Len(log)
        /\ IsWeeklyReset(log[c])
        /\ \E i \in 1..(c - 1) :
              /\ log[i].action = "checkin"
              /\ log[i].uid = m
              /\ log[i].ts = Live.users[m].start_time
              /\ \A j \in (i + 1)..Len(log) :
                    log[j].uid = m => log[j].action # "checkout"

\* C33 as stated: a member who is at work or on a break when the replay
\* starts, in a session that was open when the checkpoint was written, has
\* the same status and the same start_time when the replay has ended.
C33_SessionSurvivesReplay ==
    [][\A r \in Slots :
          ReplayEnds(r) =>
              \A m \in DOMAIN Live.users :
                  (Live.users[m].status \in {"work", "break"} /\ SpansReset(m))
                  => /\ users'[m].status = Live.users[m].status
                     /\ users'[m].start_time = Live.users[m].start_time
      ]_vars

=============================================================================
